---- MODULE Spec2Model ----
(***************************************************************************)
(* Duckpond: the streaming conversation layer.                             *)
(*                                                                         *)
(*  - get_client            the lazily created, module-level agent client  *)
(*                          (PLAN-SDK-INTEGRATION.md, Phase 2a)            *)
(*  - POST /api/chat        the chat route of the TypeScript backend       *)
(*                          (backend/src/routes/chat.ts)                   *)
(*  - redis, /api/context  the key-value store and the token-count route   *)
(*                          (backend/src/redis.ts, routes/context.ts)      *)
(*  - ThreadView + store    the EventSource reader of the frontend         *)
(*                          (frontend/src/pages/ChatPage.tsx, store)       *)
(***************************************************************************)
EXTENDS Integers, Sequences, FiniteSets, TLC

\* ------------------------------------------------------------------------
\* Bounds
\* ------------------------------------------------------------------------

\* Number of AlphaClient objects that may be constructed in one run.
MaxClients == 3
\* Number of get_client calls in one run.
MaxCalls == 4
\* Number of raw messages the runtime yields in one turn.
MaxMsgs == 3
\* Number of events, turn-start and turn-end apart, the stream endpoint
\* emits in one run.
MaxEvents == 2
\* Number of turns submitted in one run.
MaxTurns == 1
\* Number of times a reader's connection drops in one run.
MaxDrops == 1
\* Number of times the clock of the key-value store is advanced in one run.
MaxTicks == 1
\* Number of Subvox hook calls in one run.
MaxHookCalls == 1
\* Number of chunks the Subvox script writes to its standard output.
MaxData == 2
\* Number of lines of a session log.
MaxLines == 2
\* Number of session logs in the sessions directory.
MaxFiles == 3
\* Number of events a reader is given in one run, in any order.
MaxReceived == 4
\* Number of interrupt requests in one run.
MaxInterrupts == 2
\* Number of times a reader leaves the chat page in one run.
MaxLeaves == 1
\* Number of submissions in a run where turns queue up.
MaxQueue == 2
\* Number of times the composer's send is used in one run.
MaxSubmits == 2

\* ------------------------------------------------------------------------
\* Shared vocabulary
\* ------------------------------------------------------------------------

\* Python's None / JavaScript's null and undefined.
None == "none"
\* Session identifiers assigned by the agent runtime.
SessionIds == {"s1", "s2"}
\* What a request may carry as its session identifier.
SessionArgs == {None} \cup SessionIds

MinOf(S) == CHOOSE x \in S : \A y \in S : x <= y
MaxOf(S) == CHOOSE x \in S : \A y \in S : x >= y

VARIABLES
    \* --- get_client ---
    gClient,        \* _client: 0 is None, otherwise the id of an AlphaClient
    gSession,       \* _current_session
    clients,        \* status of every AlphaClient object, by id
    call,           \* per caller: the position of its get_client coroutine
    nCalls,         \* number of get_client calls started
    \* --- POST /api/chat ---
    req,            \* per request: the position and the locals of its handler
    nPosted,        \* number of requests received so far
    redis,          \* the key-value store: its entries and its clock
    ctxRes,         \* the answer of the last GET /api/context/:sessionId
    \* --- GET /api/stream and its readers ---
    srv,            \* the conversation as the stream endpoint holds it
    rd,             \* per reader: the store, the refs and the EventSource
    \* --- the pipe of POST /api/chat, the hooks, the session routes ---
    res,            \* per request: the Express response the stream is piped to
    hook,           \* the Subvox hook call in progress and what it resolved to
    sess            \* the last request to a session route and its answer

clientVars == <<gClient, gSession, clients, call, nCalls>>
chatVars == <<req, nPosted, redis, ctxRes>>
streamVars == <<srv, rd>>
routeVars == <<res, hook, sess>>

vars == <<gClient, gSession, clients, call, nCalls, req, nPosted, redis, ctxRes, srv, rd,
         res, hook, sess>>

\* ------------------------------------------------------------------------
\* get_client (PLAN-SDK-INTEGRATION.md)
\* ------------------------------------------------------------------------

ClientIds == 1..MaxClients
\* The coroutines that may run get_client (one per chat request being served).
Callers == {1, 2}

IdleCall == [pc |-> "idle", sid |-> None, target |-> 0, ret |-> 0, outcome |-> "none"]

InitClient ==
    /\ gClient = 0
    /\ gSession = None
    /\ clients = [c \in ClientIds |-> "unborn"]
    /\ call = [p \in Callers |-> IdleCall]
    /\ nCalls = 0

\* The clients that hold a connection to the agent runtime: __aenter__ has
\* been started and __aexit__ has not finished.
LiveClients == {c \in ClientIds : clients[c] \in {"entering", "live", "exiting"}}

\* The next AlphaClient(...) object.
FreshClient == CHOOSE c \in ClientIds : clients[c] = "unborn" /\ \A d \in ClientIds : d < c => clients[d] # "unborn"
HasFreshClient == \E c \in ClientIds : clients[c] = "unborn"

\* _client = AlphaClient(...); await _client.__aenter__()   (up to the await)
Construct(p, s) ==
    /\ HasFreshClient
    /\ gClient' = FreshClient
    /\ clients' = [clients EXCEPT ![FreshClient] = "entering"]
    /\ call' = [call EXCEPT ![p] = [pc |-> "entering", sid |-> s, target |-> FreshClient,
                                     ret |-> 0, outcome |-> "none"]]

\* A mutation of GetClientCall: the old client is not exited before the new
\* one is constructed.
GetClientCallNoExit(p, s) ==
    /\ call[p].pc = "idle"
    /\ nCalls < MaxCalls
    /\ nCalls' = nCalls + 1
    /\ IF gClient = 0 \/ s # gSession
       THEN /\ Construct(p, s)
            /\ UNCHANGED gSession
       ELSE /\ call' = [call EXCEPT ![p] = [pc |-> "idle", sid |-> s, target |-> 0,
                                             ret |-> gClient, outcome |-> "returned"]]
            /\ UNCHANGED <<gClient, gSession, clients>>

\* get_client(session_id), from its entry to its first await or its return.
GetClientCall(p, s) ==
    /\ call[p].pc = "idle"
    /\ nCalls < MaxCalls
    /\ nCalls' = nCalls + 1
    /\ IF gClient = 0 \/ s # gSession
       THEN IF gClient # 0
            THEN \* await _client.__aexit__(None, None, None)
                 /\ clients' = [clients EXCEPT ![gClient] = "exiting"]
                 /\ call' = [call EXCEPT ![p] = [pc |-> "exiting", sid |-> s, target |-> gClient,
                                                  ret |-> 0, outcome |-> "none"]]
                 /\ UNCHANGED <<gClient, gSession>>
            ELSE /\ Construct(p, s)
                 /\ UNCHANGED gSession
       ELSE \* return _client
            /\ call' = [call EXCEPT ![p] = [pc |-> "idle", sid |-> s, target |-> 0,
                                             ret |-> gClient, outcome |-> "returned"]]
            /\ UNCHANGED <<gClient, gSession, clients>>

\* __aexit__ has finished: the coroutine goes on to construct the new client.
GetClientExited(p) ==
    /\ call[p].pc = "exiting"
    /\ HasFreshClient
    /\ LET old == call[p].target
           new == FreshClient
       IN /\ gClient' = new
          /\ clients' = [clients EXCEPT ![old] = "closed", ![new] = "entering"]
          /\ call' = [call EXCEPT ![p] = [pc |-> "entering", sid |-> call[p].sid, target |-> new,
                                           ret |-> 0, outcome |-> "none"]]
    /\ UNCHANGED <<gSession, nCalls>>

\* __aenter__ has finished: _current_session = session_id; return _client
GetClientEntered(p) ==
    /\ call[p].pc = "entering"
    /\ clients' = [clients EXCEPT ![call[p].target] = "live"]
    /\ gSession' = call[p].sid
    /\ call' = [call EXCEPT ![p] = [pc |-> "idle", sid |-> call[p].sid, target |-> 0,
                                     ret |-> gClient, outcome |-> "returned"]]
    /\ UNCHANGED <<gClient, nCalls>>

\* __aenter__ raised (the runtime is unreachable): the exception leaves
\* get_client; _client keeps the object, _current_session is not assigned.
GetClientEnterFailed(p) ==
    /\ call[p].pc = "entering"
    /\ clients' = [clients EXCEPT ![call[p].target] = "failed"]
    /\ call' = [call EXCEPT ![p] = [pc |-> "idle", sid |-> call[p].sid, target |-> 0,
                                     ret |-> 0, outcome |-> "raised"]]
    /\ UNCHANGED <<gClient, gSession, nCalls>>

\* ------------------------------------------------------------------------
\* The key-value store (backend/src/redis.ts)
\* ------------------------------------------------------------------------

\* REDIS_TTL.squoze, in seconds
SquozeTtl == 3600

\* REDIS_KEYS.squoze(sessionId), REDIS_KEYS.context(sessionId)
SquozeKey(sid) == "duckpond:squoze:" \o sid
ContextKey(sid) == "duckpond:context:" \o sid
RedisKeys == {SquozeKey(s) : s \in SessionIds} \cup {ContextKey(s) : s \in SessionIds}

\* The value of an entry, every field present: the squoze data
\* {trigger, pre_tokens, timestamp} or the token count Eavesdrop stores
\* {input_tokens, timestamp}.
Value(trigger, preTokens, timestamp, inputTokens) ==
    [trigger |-> trigger, pre_tokens |-> preTokens, timestamp |-> timestamp,
     input_tokens |-> inputTokens]
NoValue == Value(None, None, -1, None)

NoEntry == [present |-> FALSE, value |-> NoValue, hasTtl |-> FALSE, expiresAt |-> 0]

\* A command sent to the store.
SetexCommand(key, ttl, value) == [key |-> key, ttl |-> ttl, value |-> value]

\* SETEX key ttl value at the store's present time.
Setex(store, cmd) ==
    [store EXCEPT !.data[cmd.key] =
        [present |-> TRUE, value |-> cmd.value, hasTtl |-> TRUE,
         expiresAt |-> store.now + cmd.ttl]]

\* Whether GET key finds an entry: it is there and has not expired.
Has(store, key) ==
    /\ store.data[key].present
    /\ store.data[key].hasTtl => store.now < store.data[key].expiresAt

\* GET key: the value, or nil.
Get(store, key) == IF Has(store, key) THEN store.data[key].value ELSE NoValue

\* The store at the start: Eavesdrop has stored a token count for s1.
InitRedis ==
    redis = [data |-> [k \in RedisKeys |->
                         IF k = ContextKey("s1")
                         THEN [present |-> TRUE, value |-> Value(None, None, 0, "42k"),
                               hasTtl |-> FALSE, expiresAt |-> 0]
                         ELSE NoEntry],
             now |-> 0, ticks |-> 0]

\* Time passes: a second, or a whole expiry window.
Tick(d) ==
    /\ redis.ticks < MaxTicks
    /\ redis' = [redis EXCEPT !.now = @ + d, !.ticks = @ + 1]
    /\ UNCHANGED <<req, nPosted, ctxRes>>

\* ------------------------------------------------------------------------
\* POST /api/chat (backend/src/routes/chat.ts)
\* ------------------------------------------------------------------------

\* A content part of a message (UIContentPart and the parts the handler
\* pushes to currentAssistantContent), every field present.
Part(type, text, image, toolCallId, toolName, args, argsText) ==
    [type |-> type, text |-> text, image |-> image, toolCallId |-> toolCallId,
     toolName |-> toolName, args |-> args, argsText |-> argsText,
     hasResult |-> FALSE, result |-> None, isError |-> FALSE]
TextPart(t) == Part("text", t, None, None, None, None, None)
ImagePart(img) == Part("image", None, img, None, None, None, None)

\* JSON.stringify(block.input)
JsonStringify(input) == "json:" \o input

ToolCallPart(id, name, input) ==
    Part("tool-call", None, None, id, name, input, JsonStringify(input))

\* A content block of a raw runtime message, every field present.
Block(type, text, id, name, input, content, isError) ==
    [type |-> type, text |-> text, id |-> id, name |-> name, input |-> input,
     content |-> content, is_error |-> isError]
TextBlock(t) == Block("text", t, None, None, None, None, FALSE)
ToolUse(id) == Block("tool_use", None, id, "Read", "x", None, FALSE)
ToolResult(id, content, isError) == Block("tool_result", None, id, None, None, content, isError)
ThinkingBlock == Block("thinking", "hm", None, None, None, None, FALSE)

\* A raw runtime message, every field present.
NoMeta == [trigger |-> None, pre_tokens |-> None]
RawMessage(type, content, subtype, sid) ==
    [type |-> type, content |-> content, subtype |-> subtype, session_id |-> sid,
     compact_metadata |-> NoMeta]
AssistantMsg(blocks) == RawMessage("assistant", blocks, None, None)
UserMsg(blocks) == RawMessage("user", blocks, None, None)
SystemMsg(subtype) == RawMessage("system", <<>>, subtype, None)
ResultMsg(sid) == RawMessage("result", <<>>, None, sid)
\* The system message of subtype compact_boundary with its compact_metadata.
CompactBoundary(meta) == [SystemMsg("compact_boundary") EXCEPT !.compact_metadata = meta]
CompactMeta == [trigger |-> "auto", pre_tokens |-> "150k"]

\* A chunk enqueued on the response stream.
Chunk(type, text, toolCallId, messages, hasSid, sid) ==
    [type |-> type, text |-> text, toolCallId |-> toolCallId, messages |-> messages,
     hasSessionId |-> hasSid, sessionId |-> sid]
TextChunk(t) == Chunk("text", t, None, <<>>, FALSE, None)
ToolCallChunk(id) == Chunk("tool-call", None, id, <<>>, FALSE, None)
CloseChunk == Chunk("close", None, None, <<>>, FALSE, None)

Message(role, content) == [role |-> role, content |-> content]

\* sendStateUpdate(): the operations set messages and sessionId.
StateUpdate(messages, sid) == Chunk("update-state", None, None, messages, TRUE, sid)

\* progressChunk / userProgressChunk / sysProgressChunk: responseState.messages
\* plus, when it is not empty, the assistant content so far.
ProgressChunk(messages, cac) ==
    Chunk("update-state", None, None,
          IF Len(cac) > 0 THEN Append(messages, Message("assistant", cac)) ELSE messages,
          FALSE, None)

\* ---- extractUserMessage -------------------------------------------------

\* String.prototype.trim on the texts a command may carry.
Trim(t) == CASE t = "  " -> ""
             [] t = " hi " -> "hi"
             [] OTHER -> t

\* image.startsWith('data:'), and the pieces image.split(',', 2) and
\* header.split(':')[1].split(';')[0] give for the data URL a command may carry.
DataUrl == "data:image/png;base64,QUJD"
StartsWithData(img) == img = DataUrl
MediaTypeOf(img) == IF img = DataUrl THEN "image/png" ELSE None
DataOf(img) == IF img = DataUrl THEN "QUJD" ELSE None

\* An SDKContentPart.
SdkText(t) == [type |-> "text", text |-> t, media_type |-> None, data |-> None]
SdkImage(mt, d) == [type |-> "image", text |-> None, media_type |-> mt, data |-> d]

\* The body of `for (const part of parts)`: acc is {sdkContent, uiContent, hasImages}.
ExtractPart(acc, part) ==
    IF part.type = "text"
    THEN IF part.text # None /\ Trim(part.text) # ""
         THEN [acc EXCEPT !.sdkContent = Append(@, SdkText(Trim(part.text))),
                          !.uiContent = Append(@, TextPart(Trim(part.text)))]
         ELSE acc
    ELSE IF part.type = "image" /\ part.image # None /\ part.image # ""
    THEN LET withUi == [acc EXCEPT !.uiContent = Append(@, ImagePart(part.image)),
                                   !.hasImages = TRUE]
         IN IF StartsWithData(part.image)
            THEN [withUi EXCEPT !.sdkContent =
                                   Append(@, SdkImage(MediaTypeOf(part.image), DataOf(part.image)))]
            ELSE withUi
    ELSE acc

RECURSIVE ExtractParts(_, _, _)
ExtractParts(acc, parts, i) ==
    IF i > Len(parts) THEN acc ELSE ExtractParts(ExtractPart(acc, parts[i]), parts, i + 1)

NoExtract == [found |-> FALSE, sdkContent |-> <<>>, uiContent |-> <<>>, hasImages |-> FALSE]

\* extractUserMessage(commands), from command i on: the first add-message
\* command that yields SDK content, or null (found = FALSE).
RECURSIVE ExtractFrom(_, _)
ExtractFrom(commands, i) ==
    IF i > Len(commands) THEN NoExtract
    ELSE LET cmd == commands[i]
             got == ExtractParts([NoExtract EXCEPT !.found = TRUE], cmd.parts, 1)
         IN IF cmd.type = "add-message" /\ cmd.hasMessage /\ Len(got.sdkContent) > 0
            THEN got
            ELSE ExtractFrom(commands, i + 1)

ExtractUserMessage(commands) == ExtractFrom(commands, 1)

\* ---- the message loop ---------------------------------------------------

\* A mutation of TrackText: the text replaces the text of the last part
\* instead of joining it.
TrackTextOverwrite(cac, t) ==
    IF Len(cac) > 0 /\ cac[Len(cac)].type = "text"
    THEN [cac EXCEPT ![Len(cac)].text = t]
    ELSE Append(cac, TextPart(t))

\* A text block: the text joins the last part when that is a text part,
\* otherwise it starts a new text part.
TrackText(cac, t) ==
    IF Len(cac) > 0 /\ cac[Len(cac)].type = "text"
    THEN [cac EXCEPT ![Len(cac)].text = @ \o t]
    ELSE Append(cac, TextPart(t))

\* The body of `for (const block of content)` of an assistant message:
\* st is {cac, out}.
AssistantBlock(st, block) ==
    IF block.type = "text"
    THEN [cac |-> TrackText(st.cac, block.text),
          out |-> Append(st.out, TextChunk(block.text))]
    ELSE IF block.type = "tool_use"
    THEN [cac |-> Append(st.cac, ToolCallPart(block.id, block.name, block.input)),
          out |-> Append(st.out, ToolCallChunk(block.id))]
    ELSE st

RECURSIVE AssistantBlocks(_, _, _)
AssistantBlocks(st, blocks, i) ==
    IF i > Len(blocks) THEN st
    ELSE AssistantBlocks(AssistantBlock(st, blocks[i]), blocks, i + 1)

\* The indices of the tool-call parts of `cac` whose toolCallId is `id`.
MatchingCalls(cac, id) ==
    {i \in 1..Len(cac) : cac[i].type = "tool-call" /\ cac[i].toolCallId = id}

\* A mutation of AttachResult: the loop has no break, every matching tool
\* call takes the result.
AttachResultAll(cac, block) ==
    IF block.type = "tool_result"
    THEN [i \in 1..Len(cac) |->
            IF i \in MatchingCalls(cac, block.id)
            THEN [cac[i] EXCEPT !.hasResult = TRUE, !.result = block.content,
                                !.isError = block.is_error]
            ELSE cac[i]]
    ELSE cac

\* A mutation of AttachResult: a result without a matching tool call is
\* given to the last tool call.
AttachResultAdopt(cac, block) ==
    LET calls == {i \in 1..Len(cac) : cac[i].type = "tool-call"}
        hit == MatchingCalls(cac, block.id)
    IN IF block.type = "tool_result" /\ calls # {}
       THEN LET i == IF hit # {} THEN MinOf(hit) ELSE MaxOf(calls)
            IN [cac EXCEPT ![i].hasResult = TRUE,
                           ![i].result = block.content,
                           ![i].isError = block.is_error]
       ELSE cac

\* A tool_result block: the first matching tool call takes the result
\* (the inner for loop with its break); without a match nothing changes.
AttachResult(cac, block) ==
    IF block.type = "tool_result" /\ MatchingCalls(cac, block.id) # {}
    THEN LET i == MinOf(MatchingCalls(cac, block.id))
         IN [cac EXCEPT ![i].hasResult = TRUE,
                        ![i].result = block.content,
                        ![i].isError = block.is_error]
    ELSE cac

RECURSIVE UserBlocks(_, _, _)
UserBlocks(cac, blocks, i) ==
    IF i > Len(blocks) THEN cac
    ELSE UserBlocks(AttachResult(cac, blocks[i]), blocks, i + 1)

\* ---- the handler --------------------------------------------------------

\* `${String(error)}` of the error the runtime raises.
ErrorText == "\n\nError: " \o "Error: boom"

Reqs == {1, 2}

IdleReq ==
    [pc |-> "idle", sessionId |-> None, rsMessages |-> <<>>, rsSessionId |-> None,
     cac |-> <<>>, out |-> <<>>, rawLog |-> <<>>, sdkContent |-> <<>>,
     hasImages |-> FALSE, order |-> 0, status |-> "none",
     dynamicContext |-> None, additionalContext |-> <<>>, setex |-> <<>>]

\* The answer of GET /api/context/:sessionId, every field present.
\* `sessionId` is the route parameter the answer is for.
Response(sid, status, inputTokens, timestamp) ==
    [sessionId |-> sid, status |-> status, input_tokens |-> inputTokens,
     timestamp |-> timestamp]
NoResponse == Response(None, 0, None, -1)

InitChat ==
    /\ req = [r \in Reqs |-> IdleReq]
    /\ nPosted = 0
    /\ InitRedis
    /\ ctxRes = NoResponse

\* An assistant-ui command of the request body.
Command(type, hasMessage, parts) == [type |-> type, hasMessage |-> hasMessage, parts |-> parts]

\* The request bodies' commands.
CommandLists ==
    { <<Command("add-message", TRUE, <<TextPart(" hi ")>>)>>,
      <<Command("add-message", TRUE, <<TextPart("  ")>>),
        Command("add-message", TRUE, <<ImagePart(DataUrl), TextPart("hi")>>)>>,
      <<Command("add-message", TRUE, <<TextPart("  "), ImagePart("http://x/y.png")>>)>>,
      <<Command("add-tool-result", TRUE, <<TextPart("hi")>>)>>,
      <<>> }

\* state.messages of the request bodies: nothing, or an earlier turn whose
\* assistant message holds a tool call that never got its result.
PriorMessages ==
    { <<>>,
      <<Message("user", <<TextPart("hi")>>),
        Message("assistant", <<ToolCallPart("t1", "Read", "x")>>)>> }

\* The handler from the request to its first await: extractUserMessage,
\* and for a message the response state, the user message and the first
\* state update.
Post(r, commands, sid, messages) ==
    /\ req[r].pc = "idle"
    /\ nPosted' = nPosted + 1
    /\ LET extracted == ExtractUserMessage(commands)
       IN IF ~extracted.found
          THEN \* res.json({ error: 'No message found in commands' })
               req' = [req EXCEPT ![r] = [IdleReq EXCEPT !.pc = "rejected",
                                                          !.sessionId = sid,
                                                          !.order = nPosted + 1]]
          ELSE LET msgs == Append(messages, Message("user", extracted.uiContent))
               IN req' = [req EXCEPT ![r] =
                            [IdleReq EXCEPT !.pc = "accepted",
                                            !.sessionId = sid,
                                            !.rsSessionId = sid,
                                            !.rsMessages = msgs,
                                            !.sdkContent = extracted.sdkContent,
                                            !.hasImages = extracted.hasImages,
                                            !.order = nPosted + 1,
                                            !.out = <<StateUpdate(msgs, sid)>>]]
    /\ UNCHANGED <<redis, ctxRes>>

\* fetchDynamicContext(): the HUD data when the store answers and holds
\* hud:updated; null when it holds none or when a get fails (the catch).
HudOutcomes == {"data", "empty", "error"}
FetchDynamicContext(hud) == IF hud = "data" THEN "hud" ELSE None

\* injectSessionTag, the one UserPromptSubmit hook of the query: what it
\* adds to the prompt of the session the query resumes.
InjectSessionTag(sid) ==
    IF sid # None THEN <<"<duckpond-session>" \o sid \o "</duckpond-session>">> ELSE <<>>

\* fetchDynamicContext() has resolved: buildSystemPrompt, then query({prompt,
\* options: {resume: sessionId, ...}}) and the entry into the for-await loop.
StartQuery(r, hud) ==
    /\ req[r].pc = "accepted"
    /\ req' = [req EXCEPT ![r].pc = "streaming",
                          ![r].dynamicContext = FetchDynamicContext(hud),
                          ![r].additionalContext = InjectSessionTag(req[r].sessionId)]
    /\ UNCHANGED <<nPosted, redis, ctxRes>>

\* The system branch's write: for a compact_boundary, and only when the
\* request carried a session identifier, the squoze data under the
\* session's key with the squoze expiry.
SquozeCommands(q, m) ==
    IF m.subtype = "compact_boundary" /\ q.sessionId # None
    THEN <<SetexCommand(SquozeKey(q.sessionId), SquozeTtl,
                        Value(m.compact_metadata.trigger, m.compact_metadata.pre_tokens,
                              redis.now, None))>>
    ELSE <<>>

\* A mutation of HandleMessage: the chunks of a message are withheld.
HandleMessageWithheld(q, m) ==
    IF m.type = "assistant"
    THEN [q EXCEPT !.cac = AssistantBlocks([cac |-> q.cac, out |-> q.out], m.content, 1).cac]
    ELSE IF m.type = "user"
    THEN [q EXCEPT !.cac = UserBlocks(q.cac, m.content, 1)]
    ELSE IF m.type = "system"
    THEN [q EXCEPT !.setex = @ \o SquozeCommands(q, m)]
    ELSE IF m.type = "result"
    THEN [q EXCEPT !.rsSessionId = m.session_id]
    ELSE q

\* One iteration of `for await (const message of queryIterator)`.
HandleMessage(q, m) ==
    IF m.type = "assistant"
    THEN LET st == AssistantBlocks([cac |-> q.cac, out |-> q.out], m.content, 1)
         IN [q EXCEPT !.cac = st.cac,
                      !.out = Append(st.out, ProgressChunk(q.rsMessages, st.cac))]
    ELSE IF m.type = "user"
    THEN LET cac == UserBlocks(q.cac, m.content, 1)
         IN [q EXCEPT !.cac = cac,
                      !.out = Append(q.out, ProgressChunk(q.rsMessages, cac))]
    ELSE IF m.type = "system"
    THEN [q EXCEPT !.setex = @ \o SquozeCommands(q, m),
                   !.out = Append(q.out, ProgressChunk(q.rsMessages, q.cac))]
    ELSE IF m.type = "result"
    THEN [q EXCEPT !.rsSessionId = m.session_id]
    ELSE q

\* A mutation of OnMessage: the setex is awaited without its catch, so a
\* rejected write reaches the catch block of the handler.
OnMessageAwaitSetex(r, m, ok) ==
    /\ req[r].pc = "streaming"
    /\ Len(req[r].rawLog) < MaxMsgs
    /\ LET cmds == SquozeCommands(req[r], m)
       IN IF cmds # <<>> /\ ~ok
          THEN /\ req' = [req EXCEPT ![r] =
                            [@ EXCEPT !.rawLog = Append(@, m),
                                      !.setex = @ \o cmds,
                                      !.out = @ \o <<TextChunk(ErrorText), CloseChunk>>,
                                      !.pc = "closed",
                                      !.status = "errored"]]
               /\ UNCHANGED redis
          ELSE /\ req' = [req EXCEPT ![r] =
                            [HandleMessage(req[r], m) EXCEPT !.rawLog = Append(@, m)]]
               /\ IF cmds # <<>> THEN redis' = Setex(redis, cmds[1])
                  ELSE ok /\ UNCHANGED redis
    /\ UNCHANGED <<nPosted, ctxRes>>

\* `ok` tells whether the store takes the write; a rejected setex is
\* logged by its catch and nothing else happens.
OnMessage(r, m, ok) ==
    /\ req[r].pc = "streaming"
    /\ Len(req[r].rawLog) < MaxMsgs
    /\ req' = [req EXCEPT ![r] = [HandleMessage(req[r], m) EXCEPT !.rawLog = Append(@, m)]]
    /\ LET cmds == SquozeCommands(req[r], m)
       IN IF cmds # <<>> /\ ok
          THEN redis' = Setex(redis, cmds[1])
          ELSE (cmds = <<>> => ok) /\ UNCHANGED redis
    /\ UNCHANGED <<nPosted, ctxRes>>

\* A mutation of Finish: the final state update carries the session
\* identifier of the request instead of the one the turn-result gave.
FinishStaleSession(q) ==
    LET msgs == IF Len(q.cac) > 0
                THEN Append(q.rsMessages, Message("assistant", q.cac))
                ELSE q.rsMessages
    IN [q EXCEPT !.rsMessages = msgs,
                 !.out = q.out \o <<StateUpdate(msgs, q.sessionId), CloseChunk>>,
                 !.pc = "closed",
                 !.status = "complete"]

\* What follows the loop when the iterator ends: the assistant message
\* joins the state, the final state update is sent, the stream is closed.
Finish(q) ==
    LET msgs == IF Len(q.cac) > 0
                THEN Append(q.rsMessages, Message("assistant", q.cac))
                ELSE q.rsMessages
    IN [q EXCEPT !.rsMessages = msgs,
                 !.out = q.out \o <<StateUpdate(msgs, q.rsSessionId), CloseChunk>>,
                 !.pc = "closed",
                 !.status = "complete"]

OnStreamEnd(r) ==
    /\ req[r].pc = "streaming"
    /\ req' = [req EXCEPT ![r] = Finish(req[r])]
    /\ UNCHANGED <<nPosted, redis, ctxRes>>

\* A mutation of OnStreamThrow: the catch block appends the error text and
\* the stream is left open.
OnStreamThrowNoClose(r) ==
    /\ req[r].pc = "streaming"
    /\ req' = [req EXCEPT ![r] = [@ EXCEPT !.out = Append(@, TextChunk(ErrorText)),
                                           !.pc = "closed",
                                           !.status = "errored"]]
    /\ UNCHANGED <<nPosted, redis, ctxRes>>

\* A mutation of OnStreamThrow: the stream is closed without the error text.
OnStreamThrowSilent(r) ==
    /\ req[r].pc = "streaming"
    /\ req' = [req EXCEPT ![r] = [@ EXCEPT !.out = Append(@, CloseChunk),
                                           !.pc = "closed",
                                           !.status = "errored"]]
    /\ UNCHANGED <<nPosted, redis, ctxRes>>

\* The iterator throws: the catch block appends the error text, then the
\* stream is closed.
OnStreamThrow(r) ==
    /\ req[r].pc = "streaming"
    /\ req' = [req EXCEPT ![r] = [@ EXCEPT !.out = @ \o <<TextChunk(ErrorText), CloseChunk>>,
                                           !.pc = "closed",
                                           !.status = "errored"]]
    /\ UNCHANGED <<nPosted, redis, ctxRes>>

\* GET /api/context/:sessionId: the token count stored for the session, or
\* nulls when the store holds none or the get fails (the catch).
ContextGet(sid, ok) ==
    /\ ctxRes' = IF ok /\ Has(redis, ContextKey(sid))
                 THEN Response(sid, 200, Get(redis, ContextKey(sid)).input_tokens,
                               Get(redis, ContextKey(sid)).timestamp)
                 ELSE Response(sid, 200, None, -1)
    /\ UNCHANGED <<req, nPosted, redis>>

\* The raw messages the runtime may yield in a turn.
RawMessages ==
    { AssistantMsg(<<TextBlock("a")>>),
      AssistantMsg(<<TextBlock("b")>>),
      AssistantMsg(<<TextBlock("ab")>>),
      AssistantMsg(<<ToolUse("t1")>>),
      AssistantMsg(<<ThinkingBlock, TextBlock("a"), ToolUse("t2")>>),
      AssistantMsg(<<ToolUse("t1"), ToolUse("t1")>>),
      UserMsg(<<ToolResult("t1", "ok", FALSE)>>),
      UserMsg(<<ToolResult("t2", "bad", TRUE)>>),
      UserMsg(<<ToolResult("t1", "ok2", FALSE), ToolResult("t2", "ok", FALSE)>>),
      CompactBoundary(CompactMeta),
      SystemMsg("init"),
      ResultMsg("s1"),
      ResultMsg("s2") }


\* ------------------------------------------------------------------------
\* POST /api/chat: the loop that pipes the stream to the Express response
\* ------------------------------------------------------------------------

\* Per request: how many chunks the loop has read, how many of them reached
\* the client, whether the client has gone, whether a write has thrown,
\* whether res.end() has been called and how many times.
IdleRes ==
    [written |-> 0, delivered |-> 0, gone |-> FALSE, failed |-> FALSE, ended |-> FALSE,
     ends |-> 0]

InitPipe == res = [r \in Reqs |-> IdleRes]

\* The client of the request closes its connection.
ClientGone(r) ==
    /\ req[r].pc \in {"accepted", "streaming", "closed"}
    /\ ~res[r].gone
    /\ ~res[r].ended
    /\ res' = [res EXCEPT ![r].gone = TRUE]
    /\ UNCHANGED <<chatVars, hook, sess>>

\* A mutation of PipeRead: a write that throws ends the turn as errored.
PipeReadAbortsTurn(r, throws) ==
    /\ req[r].pc \in {"accepted", "streaming", "closed"}
    /\ ~res[r].ended
    /\ res[r].written < Len(req[r].out)
    /\ throws => res[r].gone
    /\ LET chunk == req[r].out[res[r].written + 1]
       IN /\ res' = [res EXCEPT ![r] =
                       IF chunk = CloseChunk
                       THEN [@ EXCEPT !.written = @ + 1, !.ended = TRUE, !.ends = @ + 1]
                       ELSE IF throws
                       THEN [@ EXCEPT !.failed = TRUE, !.ended = TRUE, !.ends = @ + 1]
                       ELSE [@ EXCEPT !.written = @ + 1,
                                      !.delivered = IF res[r].gone THEN @ ELSE @ + 1]]
          /\ req' = IF chunk # CloseChunk /\ throws
                    THEN [req EXCEPT ![r].pc = "closed", ![r].status = "errored"]
                    ELSE req
    /\ UNCHANGED <<nPosted, redis, ctxRes, hook, sess>>

\* One iteration of `while (true)`: reader.read() gives the next chunk of
\* the stream, res.write passes it on; the closing of the stream is `done`,
\* the loop breaks and res.end() is called. `throws` tells whether the
\* write to a client that has gone throws: then the catch logs and calls
\* res.end(); otherwise the chunk is lost and the loop goes on.
PipeRead(r, throws) ==
    /\ req[r].pc \in {"accepted", "streaming", "closed"}
    /\ ~res[r].ended
    /\ res[r].written < Len(req[r].out)
    /\ throws => res[r].gone
    /\ LET chunk == req[r].out[res[r].written + 1]
       IN res' = [res EXCEPT ![r] =
                    IF chunk = CloseChunk
                    THEN [@ EXCEPT !.written = @ + 1, !.ended = TRUE, !.ends = @ + 1]
                    ELSE IF throws
                    THEN [@ EXCEPT !.failed = TRUE, !.ended = TRUE, !.ends = @ + 1]
                    ELSE [@ EXCEPT !.written = @ + 1,
                                   !.delivered = IF res[r].gone THEN @ ELSE @ + 1]]
    /\ UNCHANGED <<chatVars, hook, sess>>

\* ------------------------------------------------------------------------
\* The Subvox hooks (backend/src/hooks/subvox.ts)
\* ------------------------------------------------------------------------

\* The characters the script may write to its standard output.
StdoutChars == {" ", "m"}

\* String.prototype.trim on a string held as its characters.
RECURSIVE TrimStart(_)
TrimStart(cs) == IF cs # <<>> /\ Head(cs) = " " THEN TrimStart(Tail(cs)) ELSE cs
RECURSIVE TrimEnd(_)
TrimEnd(cs) ==
    IF cs # <<>> /\ cs[Len(cs)] = " " THEN TrimEnd(SubSeq(cs, 1, Len(cs) - 1)) ELSE cs
TrimChars(cs) == TrimEnd(TrimStart(cs))

\* The string of the characters.
RECURSIVE Join(_)
Join(cs) == IF cs = <<>> THEN "" ELSE Head(cs) \o Join(Tail(cs))

\* A HookJSONOutput: {} or {hookSpecificOutput: {hookEventName, additionalContext}}.
HookOutput(hasOutput, eventName, additionalContext) ==
    [hasHookSpecificOutput |-> hasOutput, hookEventName |-> eventName,
     additionalContext |-> additionalContext]
EmptyOutput == HookOutput(FALSE, None, None)

\* The two hooks and the module each runs.
HookKinds == {"prompt", "stop"}
ScriptModule(kind) == IF kind = "prompt" THEN "subvox.prompt_hook" ELSE "subvox.stop_hook"

\* The hook call: where the hook function is, the child process, what the
\* process has written, whether the promise of runSubvoxScript is settled, how,
\* and with what (`isNull` or the text), and what the hook returned.
IdleHook ==
    [pc |-> "idle", kind |-> None, scriptModule |-> None, proc |-> "none", code |-> 0,
     stdout |-> <<>>, stderr |-> FALSE, settled |-> "pending", settledBy |-> None,
     isNull |-> TRUE, output |-> "", result |-> EmptyOutput, calls |-> 0]

InitHook == hook = IdleHook

\* subvoxPromptHook / subvoxStopHook up to the await: runSubvoxScript spawns
\* the process, registers its listeners and writes the input to its stdin.
HookCall(kind) ==
    /\ hook.pc \in {"idle", "returned"}
    /\ hook.calls < MaxHookCalls
    /\ hook' = [IdleHook EXCEPT !.pc = "awaiting", !.kind = kind,
                                !.scriptModule = ScriptModule(kind),
                                !.proc = "running", !.calls = hook.calls + 1]
    /\ UNCHANGED <<res, sess>>

\* proc.stdout.on('data')
ProcStdout(c) ==
    /\ hook.proc = "running"
    /\ Len(hook.stdout) < MaxData
    /\ hook' = [hook EXCEPT !.stdout = Append(@, c)]
    /\ UNCHANGED <<res, sess>>

\* proc.stderr.on('data')
ProcStderr ==
    /\ hook.proc = "running"
    /\ ~hook.stderr
    /\ hook' = [hook EXCEPT !.stderr = TRUE]
    /\ UNCHANGED <<res, sess>>

\* What the hook function does once the awaited promise is fulfilled with
\* null (isNull) or with the text.
HookReturn(h, isNull, text) ==
    [h EXCEPT !.pc = "returned",
              !.result = IF h.kind = "prompt" /\ ~isNull /\ text # ""
                         THEN HookOutput(TRUE, "UserPromptSubmit", text)
                         ELSE EmptyOutput]

\* resolve(value) of the promise: the first call settles it and lets the
\* hook function go on; a later call does nothing.
Resolve(h, by, isNull, text) ==
    IF h.settled # "pending" THEN h
    ELSE HookReturn([h EXCEPT !.settled = "fulfilled", !.settledBy = by,
                              !.isNull = isNull, !.output = text],
                    isNull, text)

\* proc.on('close', code): resolve(stdout.trim() || null), whatever the code.
ProcClose(code) ==
    /\ hook.proc \in {"running", "errored"}
    /\ LET text == Join(TrimChars(hook.stdout))
       IN hook' = Resolve([hook EXCEPT !.proc = "closed", !.code = code],
                          "close", text = "", text)
    /\ UNCHANGED <<res, sess>>

\* A mutation of ProcError: the promise is rejected with the error, and the
\* await of the hook function throws.
ProcErrorRejects ==
    /\ hook.proc = "running"
    /\ hook' = IF hook.settled # "pending" THEN [hook EXCEPT !.proc = "errored"]
               ELSE [hook EXCEPT !.proc = "errored", !.settled = "rejected",
                                 !.settledBy = "error", !.pc = "threw"]
    /\ UNCHANGED <<res, sess>>

\* proc.on('error', err): the process could not be spawned; resolve(null).
ProcError ==
    /\ hook.proc = "running"
    /\ hook' = Resolve([hook EXCEPT !.proc = "errored"], "error", TRUE, "")
    /\ UNCHANGED <<res, sess>>

\* ------------------------------------------------------------------------
\* Session logs (backend/src/parsing/jsonl.ts)
\* ------------------------------------------------------------------------

\* A timestamp string, held as the digits of its characters; <<>> is ''.
Timestamps == {<<1>>, <<1, 0>>, <<2>>}

\* a.localeCompare(b) on such strings: negative, zero or positive.
RECURSIVE LocaleCompare(_, _)
LocaleCompare(a, b) ==
    IF a = <<>> /\ b = <<>> THEN 0
    ELSE IF a = <<>> THEN -1
    ELSE IF b = <<>> THEN 1
    ELSE IF Head(a) < Head(b) THEN -1
    ELSE IF Head(a) > Head(b) THEN 1
    ELSE LocaleCompare(Tail(a), Tail(b))

\* A line of a session log: blank, not JSON ("garbage"), or a SessionRecord
\* with every field present; role is None when the message has none,
\* contentKind tells whether message.content is a string, an array or absent.
LogLine(kind, type, role, contentKind, text, blocks, hasTimestamp, timestamp) ==
    [kind |-> kind, type |-> type, role |-> role, contentKind |-> contentKind,
     text |-> text, blocks |-> blocks, hasTimestamp |-> hasTimestamp,
     timestamp |-> timestamp]
BlankLine == LogLine("blank", None, None, "none", "", <<>>, FALSE, <<>>)
GarbageLine == LogLine("garbage", None, None, "none", "", <<>>, FALSE, <<>>)
StringRecord(type, role, text, ts) ==
    LogLine("record", type, role, "string", text, <<>>, TRUE, ts)
ArrayRecord(type, role, blocks, ts) ==
    LogLine("record", type, role, "array", "", blocks, TRUE, ts)

\* A block of message.content that is a plain string.
StringBlock(t) == Block("string", t, None, None, None, None, FALSE)

\* line.trim() is not empty
NonBlank(lines) == SelectSeq(lines, LAMBDA l : l.kind # "blank")

\* The tool_result blocks of one line, as the first pass meets them.
ResultBlocksOf(line) ==
    IF line.kind = "record" /\ line.contentKind = "array"
    THEN SelectSeq(line.blocks, LAMBDA b : b.type = "tool_result" /\ b.id # None /\ b.id # "")
    ELSE <<>>

\* First pass: every tool_result of the log, in the order of the toolResults.set calls.
RECURSIVE CollectResults(_, _)
CollectResults(lines, i) ==
    IF i > Len(lines) THEN <<>>
    ELSE ResultBlocksOf(lines[i]) \o CollectResults(lines, i + 1)

\* toolResults.get(id): whether the map holds the id; the last set wins.
HasResult(results, id) == \E i \in 1..Len(results) : results[i].id = id
ResultData(results, id) ==
    results[MaxOf({i \in 1..Len(results) : results[i].id = id})]

\* A mutation of DisplayPart: a tool call takes the first result of the
\* log, whatever its identifier.
DisplayPartFirstResult(block, results) ==
    IF block.type = "string"
    THEN (IF block.text # "" THEN <<TextPart(block.text)>> ELSE <<>>)
    ELSE IF block.type = "text"
    THEN (IF block.text # None /\ block.text # "" THEN <<TextPart(block.text)>> ELSE <<>>)
    ELSE IF block.type = "tool_use"
    THEN LET toolCall == ToolCallPart(block.id, block.name, block.input)
         IN IF results # <<>>
            THEN <<[toolCall EXCEPT !.hasResult = TRUE,
                                    !.result = results[1].content,
                                    !.isError = results[1].is_error]>>
            ELSE <<toolCall>>
    ELSE <<>>

\* The part the second pass pushes for one block, <<>> when it pushes none.
DisplayPart(block, results) ==
    IF block.type = "string"
    THEN (IF block.text # "" THEN <<TextPart(block.text)>> ELSE <<>>)
    ELSE IF block.type = "text"
    THEN (IF block.text # None /\ block.text # "" THEN <<TextPart(block.text)>> ELSE <<>>)
    ELSE IF block.type = "tool_use"
    THEN LET toolCall == ToolCallPart(block.id, block.name, block.input)
         IN IF HasResult(results, block.id)
            THEN <<[toolCall EXCEPT !.hasResult = TRUE,
                                    !.result = ResultData(results, block.id).content,
                                    !.isError = ResultData(results, block.id).is_error]>>
            ELSE <<toolCall>>
    ELSE <<>>

RECURSIVE DisplayParts(_, _, _)
DisplayParts(blocks, results, i) ==
    IF i > Len(blocks) THEN <<>>
    ELSE DisplayPart(blocks[i], results) \o DisplayParts(blocks, results, i + 1)

\* contentParts of one line of the second pass.
ContentParts(line, results) ==
    IF line.contentKind = "string"
    THEN (IF line.text # "" THEN <<TextPart(line.text)>> ELSE <<>>)
    ELSE IF line.contentKind = "array"
    THEN DisplayParts(line.blocks, results, 1)
    ELSE <<>>

\* A DisplayMessage.
DisplayMessage(role, content, hasTimestamp, timestamp) ==
    [role |-> role, content |-> content, hasTimestamp |-> hasTimestamp,
     timestamp |-> timestamp]

\* The message the second pass pushes for one line, <<>> when it pushes none.
MessageOf(line, results) ==
    IF line.kind # "record" \/ line.type \notin {"user", "assistant"} THEN <<>>
    ELSE LET parts == ContentParts(line, results)
         IN IF Len(parts) > 0 /\ line.role # None
            THEN <<DisplayMessage(line.role, parts, line.hasTimestamp, line.timestamp)>>
            ELSE <<>>

RECURSIVE SecondPass(_, _, _)
SecondPass(lines, results, i) ==
    IF i > Len(lines) THEN <<>>
    ELSE MessageOf(lines[i], results) \o SecondPass(lines, results, i + 1)

\* extractDisplayMessages(lines)
ExtractDisplayMessages(lines) == SecondPass(lines, CollectResults(lines, 1), 1)

\* ------------------------------------------------------------------------
\* GET /api/sessions/:sessionId and GET /api/sessions (routes/sessions.ts,
\* kept in backend/src/routes/context.ts)
\* ------------------------------------------------------------------------

\* limit when the request carries none.
DefaultLimit == 20

\* The lines a session log may hold.
LogLines ==
    { BlankLine,
      GarbageLine,
      StringRecord("user", "user", "hi", <<1>>),
      StringRecord("user", "user", "", <<1>>),
      StringRecord("system", "user", "sys", <<1>>),
      ArrayRecord("assistant", "assistant", <<TextBlock("a"), ToolUse("t1")>>, <<1, 0>>),
      ArrayRecord("assistant", "assistant", <<ToolUse("t2")>>, <<1, 0>>),
      ArrayRecord("assistant", "assistant", <<TextBlock(""), ThinkingBlock>>, <<1, 0>>),
      ArrayRecord("assistant", None, <<TextBlock("a")>>, <<1, 0>>),
      ArrayRecord("user", "user", <<ToolResult("t1", "ok", FALSE)>>, <<2>>),
      ArrayRecord("user", "user",
                  <<ToolResult("t1", "bad", TRUE), ToolResult("t2", "", FALSE)>>, <<2>>),
      ArrayRecord("user", "user", <<StringBlock("yo"), ToolResult("t3", "ok", FALSE)>>, <<2>>) }

RECURSIVE SeqsUpTo(_, _)
SeqsUpTo(S, n) ==
    IF n = 0 THEN {<<>>}
    ELSE LET shorter == SeqsUpTo(S, n - 1)
         IN shorter \cup {Append(q, x) : q \in shorter, x \in S}

\* The contents a session log may have.
Logs == SeqsUpTo(LogLines, MaxLines)

\* JSON.parse(line) throws
Throws(line) == line.kind = "garbage"

\* The answer of a session route, every field present: the route and its
\* inputs, the status, whether the body has an error or a message list, the
\* messages, the metadata, and for the listing its entries.
Answer(route, sid, exists, file, dir, limit, status, hasError, hasMessages, messages, list) ==
    [route |-> route, sessionId |-> sid, exists |-> exists, file |-> file, dir |-> dir,
     limit |-> limit, status |-> status, hasError |-> hasError,
     hasMessages |-> hasMessages, messages |-> messages, list |-> list]
NoAnswer == Answer(None, None, FALSE, <<>>, <<>>, None, 0, FALSE, FALSE, <<>>, <<>>)

InitSessions == sess = NoAnswer

\* A mutation of GetSession: a session without a log is answered like an
\* empty one.
GetSessionMissingAsEmpty(sid, exists, file) ==
    /\ ~exists => file = <<>>
    /\ LET lines == NonBlank(file)
       IN sess' =
            IF lines # <<>> /\ (Throws(lines[1]) \/ Throws(lines[Len(lines)]))
            THEN Answer("get", sid, exists, file, <<>>, None, 500, TRUE, FALSE, <<>>, <<>>)
            ELSE Answer("get", sid, exists, file, <<>>, None, 200, FALSE, TRUE,
                        ExtractDisplayMessages(lines), <<>>)
    /\ UNCHANGED <<res, hook>>

\* GET /api/sessions/:sessionId. `exists` is existsSync(jsonlPath), `file`
\* the lines of the log. JSON.parse of the first or the last line throws
\* for a line that is not JSON: Express answers 500.
GetSession(sid, exists, file) ==
    /\ ~exists => file = <<>>
    /\ LET lines == NonBlank(file)
       IN sess' =
            IF ~exists
            THEN Answer("get", sid, exists, file, <<>>, None, 404, TRUE, FALSE, <<>>, <<>>)
            ELSE IF lines # <<>> /\ (Throws(lines[1]) \/ Throws(lines[Len(lines)]))
            THEN Answer("get", sid, exists, file, <<>>, None, 500, TRUE, FALSE, <<>>, <<>>)
            ELSE Answer("get", sid, exists, file, <<>>, None, 200, FALSE, TRUE,
                        ExtractDisplayMessages(lines), <<>>)
    /\ UNCHANGED <<res, hook>>

\* ---- GET /api/sessions -------------------------------------------------

\* A file of SESSIONS_DIR: its name is id + ext.
File(id, ext, lines) == [id |-> id, ext |-> ext, lines |-> lines]
\* f.endsWith('.jsonl') and basename(file, '.jsonl')
EndsWithJsonl(f) == f.ext = ".jsonl"
Basename(f) == f.id

\* text.slice(0, n)
Slice(text, n) == IF Len(text) > n THEN SubSeq(text, 1, n) ELSE text

\* A user record without a timestamp whose text is longer than a title.
LongText == "0123456789012345678901234567890123456789012345678901234"
UndatedRecord == LogLine("record", "user", "user", "string", LongText, <<>>, FALSE, <<>>)

\* The contents of the logs the listing reads.
ListLogs ==
    { <<>>,
      <<GarbageLine>>,
      <<StringRecord("user", "user", "hi", <<1>>)>>,
      <<ArrayRecord("assistant", "assistant", <<TextBlock("a")>>, <<1, 0>>)>>,
      <<StringRecord("user", "user", "hi", <<1>>),
        ArrayRecord("user", "user", <<ToolResult("t1", "ok", FALSE)>>, <<2>>)>>,
      <<StringRecord("user", "user", "hi", <<1>>), GarbageLine,
        ArrayRecord("assistant", "assistant", <<TextBlock("a")>>, <<2>>)>>,
      <<UndatedRecord>>,
      <<ArrayRecord("user", "user", <<ToolResult("t1", "ok", FALSE), TextBlock(LongText)>>,
                    <<1>>)>>,
      <<ArrayRecord("user", "user", <<ToolResult("t1", "ok", FALSE)>>, <<2>>),
        StringRecord("user", "user", "hi", <<2>>)>> }

FileIds == {"s1", "s2", "0123456789"}

\* The files a directory may hold.
Files ==
    {File(id, ".jsonl", l) : id \in FileIds, l \in ListLogs} \cup {File("notes", ".txt", <<>>)}

\* The directories: up to MaxFiles files of different names, in the order
\* readdirSync gives them.
RECURSIVE Dirs(_)
Dirs(n) ==
    IF n = 0 THEN {<<>>}
    ELSE LET shorter == Dirs(n - 1)
         IN shorter \cup
            {x \in {Append(d, f) : d \in {y \in shorter : Len(y) = n - 1}, f \in Files} :
                \A i \in 1..(n - 1) : x[i].id # x[n].id}

\* The index of the first record of type user, 0 when there is none.
FirstUser(lines) ==
    LET users == {i \in 1..Len(lines) : lines[i].kind = "record" /\ lines[i].type = "user"}
    IN IF users = {} THEN 0 ELSE MinOf(users)

\* Whether the try block of a file throws: the first line, the last line,
\* or a line the title loop parses before it breaks is not JSON.
FileThrows(lines) ==
    \/ Throws(lines[1])
    \/ Throws(lines[Len(lines)])
    \/ \E i \in 1..Len(lines) :
          /\ Throws(lines[i])
          /\ \A j \in 1..(i - 1) : ~(lines[j].kind = "record" /\ lines[j].type = "user")

\* A mutation of TitleOf: the text is taken whole.
TitleOfWhole(lines) ==
    IF FirstUser(lines) = 0 THEN ""
    ELSE LET record == lines[FirstUser(lines)]
             texts == {i \in 1..Len(record.blocks) :
                          record.blocks[i].type \in {"string", "text"}}
         IN IF record.contentKind = "string" THEN record.text
            ELSE IF record.contentKind = "array" /\ texts # {}
            THEN record.blocks[MinOf(texts)].text
            ELSE ""

\* The title the loop finds in the first user record; "" stands for null.
TitleOf(lines) ==
    IF FirstUser(lines) = 0 THEN ""
    ELSE LET record == lines[FirstUser(lines)]
             texts == {i \in 1..Len(record.blocks) :
                          record.blocks[i].type \in {"string", "text"}}
         IN IF record.contentKind = "string" THEN Slice(record.text, 50)
            ELSE IF record.contentKind = "array" /\ texts # {}
            THEN Slice(record.blocks[MinOf(texts)].text, 50)
            ELSE ""

\* An entry of the listing; hasCreated / hasUpdated tell whether the first
\* and the last record have a timestamp.
Entry(id, title, hasCreated, created, hasUpdated, updated) ==
    [id |-> id, title |-> title, hasCreated |-> hasCreated, created_at |-> created,
     hasUpdated |-> hasUpdated, updated_at |-> updated]

\* The body of the for loop: the entry pushed for a file, <<>> when the file
\* is empty or its try block throws.
EntryOf(f) ==
    LET lines == NonBlank(f.lines)
    IN IF lines = <<>> \/ FileThrows(lines) THEN <<>>
       ELSE LET first == lines[1]
                last == lines[Len(lines)]
                title == TitleOf(lines)
            IN <<Entry(Basename(f),
                       IF title # "" THEN title ELSE Slice(Basename(f), 8),
                       first.hasTimestamp, first.timestamp,
                       last.hasTimestamp, last.timestamp)>>

RECURSIVE EntriesOf(_, _)
EntriesOf(files, i) ==
    IF i > Len(files) THEN <<>>
    ELSE EntryOf(files[i]) \o EntriesOf(files, i + 1)

\* a.updated_at || ''
TimeOf(e) == IF e.hasUpdated THEN e.updated_at ELSE <<>>

\* A mutation of Compare: ascending.
CompareAscending(a, b) == LocaleCompare(TimeOf(a), TimeOf(b))

\* The comparator of the sort: bTime.localeCompare(aTime).
Compare(a, b) == LocaleCompare(TimeOf(b), TimeOf(a))

\* Array.prototype.sort with the comparator: stable, an entry goes before
\* the first one the comparator puts after it.
InsertSorted(sorted, e) ==
    LET after == {i \in 1..Len(sorted) : Compare(sorted[i], e) > 0}
        k == IF after = {} THEN Len(sorted) + 1 ELSE MinOf(after)
    IN SubSeq(sorted, 1, k - 1) \o <<e>> \o SubSeq(sorted, k, Len(sorted))

RECURSIVE SortSessions(_, _)
SortSessions(sessions, i) ==
    IF i = 0 THEN <<>>
    ELSE InsertSorted(SortSessions(sessions, i - 1), sessions[i])

\* The limit parameter of a request: absent (None) or its text.
LimitArgs == {None, "0", "1", "2", "-1", "abc"}

\* parseInt(req.query.limit as string): NaN for an absent parameter and for
\* a text that does not start with a number.
ParseInt(arg) ==
    CASE arg = "0" -> [nan |-> FALSE, n |-> 0]
      [] arg = "1" -> [nan |-> FALSE, n |-> 1]
      [] arg = "2" -> [nan |-> FALSE, n |-> 2]
      [] arg = "-1" -> [nan |-> FALSE, n |-> -1]
      [] OTHER -> [nan |-> TRUE, n |-> 0]

\* parseInt(...) || 20
LimitOf(arg) ==
    IF ParseInt(arg).nan \/ ParseInt(arg).n = 0 THEN DefaultLimit ELSE ParseInt(arg).n

\* sessions.slice(0, end)
SliceTo(list, end) ==
    LET stop == IF end < 0 THEN MaxOf({Len(list) + end, 0}) ELSE MinOf({end, Len(list)})
    IN SubSeq(list, 1, stop)

\* GET /api/sessions. `dirExists` is existsSync(SESSIONS_DIR), `dir` the
\* files readdirSync gives.
ListSessions(dirExists, dir, limitArg) ==
    /\ ~dirExists => dir = <<>>
    /\ LET files == SelectSeq(dir, EndsWithJsonl)
           sessions == EntriesOf(files, 1)
           sorted == SortSessions(sessions, Len(sessions))
       IN sess' = Answer("list", None, dirExists, <<>>, dir, limitArg, 200, FALSE, FALSE, <<>>,
                         IF dirExists THEN SliceTo(sorted, LimitOf(limitArg)) ELSE <<>>)
    /\ UNCHANGED <<res, hook>>

\* ------------------------------------------------------------------------
\* The store (frontend/src/store, kept in pages/HomePage.tsx)
\* ------------------------------------------------------------------------

\* A message of the store; `turn` records the turn during which it was made.
StoreMessage(id, role, content, turn) ==
    [id |-> id, role |-> role, content |-> content, turn |-> turn]

\* state.messages.find((m) => m.id === messageId): its index, 0 if none.
FindMessage(messages, id) ==
    LET hit == {i \in 1..Len(messages) : messages[i].id = id}
    IN IF hit = {} THEN 0 ELSE MinOf(hit)

\* addUserMessage(content, attachments) with the id generateId() gave.
AddUserMessage(messages, id, text, attachments) ==
    Append(messages,
           StoreMessage(id, "user",
                        [i \in 1..Len(attachments) |-> ImagePart(attachments[i])]
                           \o <<TextPart(text)>>, 0))

\* addAssistantPlaceholder() with the id generateId() gave.
AddAssistantPlaceholder(messages, id, turn) ==
    Append(messages, StoreMessage(id, "assistant", <<>>, turn))

\* appendToAssistant(messageId, text)
AppendToAssistant(messages, id, text) ==
    LET k == FindMessage(messages, id)
    IN IF k = 0 \/ messages[k].role # "assistant" THEN messages
       ELSE LET content == messages[k].content
                texts == {i \in 1..Len(content) : content[i].type = "text"}
            IN IF texts # {}
               THEN [messages EXCEPT ![k].content[MinOf(texts)] =
                                        TextPart(content[MinOf(texts)].text \o text)]
               ELSE [messages EXCEPT ![k].content = <<TextPart(text)>> \o content]

\* addToolCall(messageId, toolCall)
AddToolCall(messages, id, toolCall) ==
    LET k == FindMessage(messages, id)
    IN IF k = 0 \/ messages[k].role # "assistant" THEN messages
       ELSE [messages EXCEPT ![k].content = Append(@, toolCall)]

\* A mutation of UpdateToolResult: the tool call is looked for in every
\* message, not in the message of the given id.
UpdateToolResultAnywhere(messages, id, toolCallId, result, isError) ==
    LET holders == {k \in 1..Len(messages) : MatchingCalls(messages[k].content, toolCallId) # {}}
    IN IF holders = {} THEN messages
       ELSE LET k == MinOf(holders)
                i == MinOf(MatchingCalls(messages[k].content, toolCallId))
            IN [messages EXCEPT ![k].content[i].hasResult = TRUE,
                                ![k].content[i].result = result,
                                ![k].content[i].isError = isError]

\* updateToolResult(messageId, toolCallId, result, isError)
UpdateToolResult(messages, id, toolCallId, result, isError) ==
    LET k == FindMessage(messages, id)
    IN IF k = 0 THEN messages
       ELSE LET hit == MatchingCalls(messages[k].content, toolCallId)
            IN IF hit = {} THEN messages
               ELSE [messages EXCEPT ![k].content[MinOf(hit)].hasResult = TRUE,
                                     ![k].content[MinOf(hit)].result = result,
                                     ![k].content[MinOf(hit)].isError = isError]

\* ------------------------------------------------------------------------
\* ThreadView: the EventSource listeners (frontend/src/pages/ChatPage.tsx)
\* ------------------------------------------------------------------------

\* An event of the stream, every field present.
Event(type, text, toolCallId, result, isError, sid) ==
    [type |-> type, text |-> text, toolCallId |-> toolCallId, result |-> result,
     isError |-> isError, sessionId |-> sid]
TurnStart == Event("turn-start", None, None, None, FALSE, None)
TurnEnd == Event("turn-end", None, None, None, FALSE, None)
TextDelta(t) == Event("text-delta", t, None, None, FALSE, None)
ToolCallEv(id) == Event("tool-call", None, id, None, FALSE, None)
ToolResultEv(id, result, isError) == Event("tool-result", None, id, result, isError, None)
SessionIdEv(sid) == Event("session-id", None, None, None, FALSE, sid)
StatusEv(phase) == Event("status", phase, None, None, FALSE, None)
ThinkingDelta(t) == Event("thinking-delta", t, None, None, FALSE, None)

\* A mutation of OnEvent: turn-end leaves the current assistant message
\* designated.
OnEventKeepCurrent(r, ev, turn) ==
    IF ev.type = "turn-start"
    THEN [r EXCEPT !.messages = AddAssistantPlaceholder(@, r.idCounter + 1, turn),
                   !.idCounter = @ + 1,
                   !.curId = r.idCounter + 1,
                   !.isRunning = TRUE]
    ELSE IF ev.type = "text-delta"
    THEN IF r.curId # 0 /\ ev.text # ""
         THEN [r EXCEPT !.messages = AppendToAssistant(@, r.curId, ev.text)]
         ELSE r
    ELSE IF ev.type = "tool-call"
    THEN IF r.curId # 0
         THEN [r EXCEPT !.messages =
                           AddToolCall(@, r.curId, ToolCallPart(ev.toolCallId, "Read", "x"))]
         ELSE r
    ELSE IF ev.type = "tool-result"
    THEN IF r.curId # 0
         THEN [r EXCEPT !.messages =
                           UpdateToolResult(@, r.curId, ev.toolCallId, ev.result, ev.isError)]
         ELSE r
    ELSE IF ev.type = "session-id"
    THEN [r EXCEPT !.sessionId = ev.sessionId]
    ELSE IF ev.type = "status"
    THEN IF ev.text = "compacting" THEN [r EXCEPT !.isRunning = TRUE] ELSE r
    ELSE IF ev.type = "turn-end"
    THEN [r EXCEPT !.isRunning = FALSE]
    ELSE r

\* The listener of the event's type, applied to the reader r; `turn` is the
\* turn the event belongs to (kept in the placeholder a turn-start makes).
\* A thinking-delta changes nothing: without a current message its listener
\* does nothing, with one it calls appendThinking, which the store lacks.
OnEvent(r, ev, turn) ==
    IF ev.type = "turn-start"
    THEN [r EXCEPT !.messages = AddAssistantPlaceholder(@, r.idCounter + 1, turn),
                   !.idCounter = @ + 1,
                   !.curId = r.idCounter + 1,
                   !.isRunning = TRUE]
    ELSE IF ev.type = "text-delta"
    THEN IF r.curId # 0 /\ ev.text # ""
         THEN [r EXCEPT !.messages = AppendToAssistant(@, r.curId, ev.text)]
         ELSE r
    ELSE IF ev.type = "tool-call"
    THEN IF r.curId # 0
         THEN [r EXCEPT !.messages =
                           AddToolCall(@, r.curId, ToolCallPart(ev.toolCallId, "Read", "x"))]
         ELSE r
    ELSE IF ev.type = "tool-result"
    THEN IF r.curId # 0
         THEN [r EXCEPT !.messages =
                           UpdateToolResult(@, r.curId, ev.toolCallId, ev.result, ev.isError)]
         ELSE r
    ELSE IF ev.type = "session-id"
    THEN [r EXCEPT !.sessionId = ev.sessionId]
    ELSE IF ev.type = "status"
    THEN IF ev.text = "compacting" THEN [r EXCEPT !.isRunning = TRUE] ELSE r
    ELSE IF ev.type = "turn-end"
    THEN [r EXCEPT !.isRunning = FALSE, !.curId = 0]
    ELSE r

\* The listeners applied to events i.. of a sequence, in order.
RECURSIVE OnEvents(_, _, _, _)
OnEvents(r, events, turn, i) ==
    IF i > Len(events) THEN r
    ELSE OnEvents(OnEvent(r, events[i], turn), events, turn, i + 1)

\* ------------------------------------------------------------------------
\* GET /api/stream, POST /api/chat of the stream design, and the readers
\* ------------------------------------------------------------------------

Readers == {1, 2}

\* inputTokens of the store is a number or null; NoCount stands for null.
NoCount == -1

IdleReader ==
    [sessionId |-> None, messages |-> <<>>, isRunning |-> FALSE, inputTokens |-> NoCount,
     curId |-> 0, idCounter |-> 0, posting |-> 0,
     esState |-> "closed", esSid |-> None,
     recv |-> <<>>, drops |-> 0, droppedAt |-> 0, droppedTurn |-> 0, leaves |-> 0,
     calls |-> 0]

InitStream ==
    /\ srv = [turn |-> 0, inFlight |-> FALSE, hist |-> <<>>, queued |-> 0, sid |-> None,
              resultSent |-> FALSE, emitted |-> 0, submitted |-> 0,
              status |-> <<>>, interrupt |-> FALSE, interruptAt |-> 0, interrupts |-> 0]
    /\ rd = [k \in Readers |-> IdleReader]

\* The events of the current turn, as far as they have been emitted.
TurnEvents == IF srv.turn = 0 THEN <<>> ELSE srv.hist[srv.turn]

\* What GET /api/sessions/:id returns for the existing conversation, as the
\* load effect stores it (ids loaded-0, loaded-1, written -1, -2): an earlier
\* turn whose tool call t1 never got a result.
LoadedMessages ==
    <<StoreMessage(-1, "user", <<TextPart("hi")>>, 0),
      StoreMessage(-2, "assistant", <<ToolCallPart("t1", "Read", "x")>>, 0)>>

\* loadSession(sessionId, messages) of the store, in a ThreadView that has
\* just mounted (its ref designates no message, its stream has given
\* nothing): the identifier and the messages are replaced, the running flag
\* and the token count are left as they were.
LoadSession(r, sessionId, messages) ==
    [r EXCEPT !.sessionId = sessionId, !.messages = messages,
              !.curId = 0, !.recv = <<>>]

\* reset() of the store, in a ThreadView that has just mounted:
\* set(initialState).
Reset(r) ==
    [r EXCEPT !.sessionId = None, !.messages = <<>>, !.isRunning = FALSE,
              !.inputTokens = NoCount, !.curId = 0, !.recv = <<>>]

\* The stream of the reader is a stream of the conversation the server
\* runs, not of the other one.
OnConversation(k) == rd[k].esSid # "s2"

\* ChatPage renders ThreadView, for a new conversation (reset) or for an
\* existing one (loadSession); ThreadView's effect opens the EventSource.
RdMount(k, loaded) ==
    /\ rd[k].esState = "closed"
    /\ IF loaded
       THEN /\ srv.sid = "s1" \/ (srv.sid = None /\ srv.turn = 0 /\ srv.submitted = 0)
            /\ srv' = [srv EXCEPT !.sid = "s1"]
            /\ rd' = [rd EXCEPT ![k] = [LoadSession(rd[k], "s1", LoadedMessages) EXCEPT
                                           !.esState = "connecting", !.esSid = "s1"]]
       ELSE /\ srv.sid = None
            /\ UNCHANGED srv
            /\ rd' = [rd EXCEPT ![k] = [Reset(rd[k]) EXCEPT !.esState = "connecting"]]

\* The other conversation of the list, and what GET /api/sessions/:id
\* returns for it; it has no turn in flight.
OtherSession == "s2"
OtherMessages ==
    <<StoreMessage(-1, "user", <<TextPart("yo")>>, 0),
      StoreMessage(-2, "assistant", <<TextPart("b")>>, 0)>>

\* The link to "/" of the chat page: ChatPage and ThreadView unmount, the
\* effect's cleanup closes the EventSource, the ref that designated the
\* current assistant message is gone; the store is a module of its own and
\* keeps its state.
RdLeave(k) ==
    /\ rd[k].esState # "closed"
    /\ rd[k].leaves < MaxLeaves
    /\ rd' = [rd EXCEPT ![k].esState = "closed", ![k].esSid = None, ![k].curId = 0,
                        ![k].leaves = @ + 1]
    /\ UNCHANGED srv

\* A session of the home page's list is opened: ChatPage mounts with the
\* other conversation's identifier, its load effect fetches the messages
\* and calls loadSession, ThreadView mounts and opens the EventSource.
RdLoadOther(k) ==
    /\ rd[k].esState = "closed"
    /\ rd' = [rd EXCEPT ![k] = [LoadSession(rd[k], OtherSession, OtherMessages) EXCEPT
                                   !.esState = "connecting", !.esSid = OtherSession]]
    /\ UNCHANGED srv

\* A mutation of OnNew: without the early return.
OnNewAlways(k, text, attachments) ==
    /\ rd[k].esState # "closed"
    /\ rd' = [rd EXCEPT ![k].messages =
                           AddUserMessage(@, rd[k].idCounter + 1, text, attachments),
                        ![k].idCounter = @ + 1,
                        ![k].posting = @ + 1,
                        ![k].calls = @ + 1]
    /\ srv' = [srv EXCEPT !.submitted = @ + 1]

\* onNew up to its await, called with the text of the composer and the
\* images of its attachments (data URLs, as the attachment adapter makes
\* them): without text and without image it returns at once; otherwise the
\* user message joins the store and the POST leaves. `calls` counts the
\* calls.
OnNew(k, text, attachments) ==
    /\ rd[k].esState # "closed"
    /\ IF Trim(text) = "" /\ Len(attachments) = 0
       THEN /\ rd' = [rd EXCEPT ![k].calls = @ + 1]
            /\ UNCHANGED srv
       ELSE /\ rd' = [rd EXCEPT ![k].messages =
                                  AddUserMessage(@, rd[k].idCounter + 1, text, attachments),
                               ![k].idCounter = @ + 1,
                               ![k].posting = @ + 1,
                               ![k].calls = @ + 1]
            /\ srv' = [srv EXCEPT !.submitted = @ + 1]

\* onNew, for the runs that follow MaxTurns submissions.
OnNewSend(k, text) ==
    /\ srv.submitted < MaxTurns
    /\ OnNew(k, text, <<>>)

\* The POST failed or was answered with an error status: the catch block of
\* onNew shows the error in a placeholder and clears the running flag.
OnNewFailed(k) ==
    /\ rd[k].posting > 0
    /\ rd' = [rd EXCEPT ![k].posting = @ - 1,
                        ![k].messages =
                           AppendToAssistant(AddAssistantPlaceholder(@, rd[k].idCounter + 1, 0),
                                             rd[k].idCounter + 1, "Error: API error: 500"),
                        ![k].idCounter = @ + 1,
                        ![k].isRunning = FALSE]
    /\ UNCHANGED srv

\* The submission is accepted into the queue and acknowledged.
SrvAccept(k) ==
    /\ rd[k].posting > 0
    /\ rd' = [rd EXCEPT ![k].posting = @ - 1]
    /\ srv' = [srv EXCEPT !.queued = @ + 1]

\* A mutation of Broadcast: an event goes to one reader only, the first
\* with an open stream.
BroadcastOneConsumer(ev, turn) ==
    rd' = [k \in Readers |->
             IF rd[k].esState = "open" /\ \A j \in Readers : rd[j].esState = "open" => k <= j
             THEN [OnEvent(rd[k], ev, turn) EXCEPT
                      !.recv = IF ev.type = "turn-start" THEN <<ev>> ELSE Append(@, ev)]
             ELSE rd[k]]

\* Every reader with an open stream gets the event and runs its listener.
Broadcast(ev, turn) ==
    rd' = [k \in Readers |->
             IF rd[k].esState = "open" /\ OnConversation(k)
             THEN [OnEvent(rd[k], ev, turn) EXCEPT
                      !.recv = IF ev.type = "turn-start" THEN <<ev>> ELSE Append(@, ev)]
             ELSE rd[k]]

\* The next queued turn starts once no turn is in flight.
SrvTurnStart ==
    /\ ~srv.inFlight
    /\ srv.queued > 0
    /\ srv' = [srv EXCEPT !.turn = @ + 1, !.inFlight = TRUE, !.queued = @ - 1,
                          !.hist = Append(@, <<TurnStart>>), !.resultSent = FALSE,
                          !.status = Append(@, "pending")]
    /\ Broadcast(TurnStart, srv.turn + 1)

\* The identifiers of the tool calls emitted so far in the current turn.
CalledIds == {TurnEvents[i].toolCallId : i \in {j \in 1..Len(TurnEvents) : TurnEvents[j].type = "tool-call"}}

\* The translator emits an event of the turn in flight; a tool-result only
\* for a tool-call emitted earlier in the turn.
SrvEmit(ev) ==
    /\ srv.inFlight
    /\ ~srv.resultSent
    /\ srv.emitted < MaxEvents
    /\ ev.type = "tool-result" => ev.toolCallId \in CalledIds
    /\ srv' = [srv EXCEPT !.hist[srv.turn] = Append(@, ev), !.emitted = @ + 1]
    /\ Broadcast(ev, srv.turn)

\* The turn-result of a conversation whose identifier was unknown: the
\* session-id event.
SrvSessionId(sid) ==
    /\ srv.inFlight
    /\ srv.sid = None
    /\ srv' = [srv EXCEPT !.hist[srv.turn] = Append(@, SessionIdEv(sid)),
                          !.sid = sid, !.resultSent = TRUE]
    /\ Broadcast(SessionIdEv(sid), srv.turn)

\* A mutation of SrvTurnEnd: the turn is sealed as complete, interrupt or not.
SrvTurnEndComplete ==
    /\ srv.inFlight
    /\ srv.sid # None
    /\ srv' = [srv EXCEPT !.hist[srv.turn] = Append(@, TurnEnd), !.inFlight = FALSE,
                          !.status[srv.turn] = "complete",
                          !.interrupt = FALSE]
    /\ Broadcast(TurnEnd, srv.turn)

\* The terminating marker: the turn is sealed, as interrupted when an
\* interrupt was requested before the terminal message, as complete otherwise.
SrvTurnEnd ==
    /\ srv.inFlight
    /\ srv.sid # None
    /\ srv' = [srv EXCEPT !.hist[srv.turn] = Append(@, TurnEnd), !.inFlight = FALSE,
                          !.status[srv.turn] =
                             IF srv.interrupt THEN "interrupted" ELSE "complete",
                          !.interrupt = FALSE]
    /\ Broadcast(TurnEnd, srv.turn)

\* interrupt(conversationId): with a turn in flight the cancellation is
\* noted (the runtime may still emit what it has buffered); with none in
\* flight nothing happens.
Interrupt(s) ==
    IF s.inFlight /\ ~s.interrupt
    THEN [s EXCEPT !.interrupt = TRUE, !.interruptAt = Len(s.hist[s.turn])]
    ELSE s

\* onCancel (the stop control, or Esc while running): POST
\* /api/chat/interrupt; the store is not touched.
OnCancel(k) ==
    /\ rd[k].esState # "closed"
    /\ srv.interrupts < MaxInterrupts
    /\ srv' = [Interrupt(srv) EXCEPT !.interrupts = @ + 1]
    /\ UNCHANGED rd

\* A mutation of SrvOpen: the stream starts with the live events only.
SrvOpenNoReplay(k) ==
    /\ rd[k].esState = "connecting"
    /\ rd' = [rd EXCEPT ![k].esState = "open", ![k].recv = <<>>]
    /\ UNCHANGED srv

\* openStream: the channel is established; with a turn in flight the events
\* the turn has produced so far are sent first, from the turn's start.
SrvOpen(k) ==
    /\ rd[k].esState = "connecting"
    /\ rd' = [rd EXCEPT ![k] =
                IF srv.inFlight /\ OnConversation(k)
                THEN [OnEvents(rd[k], TurnEvents, srv.turn, 1) EXCEPT
                         !.esState = "open", !.recv = TurnEvents]
                ELSE [rd[k] EXCEPT !.esState = "open", !.recv = <<>>]]
    /\ UNCHANGED srv

\* The connection drops (es.onerror); the browser reconnects by itself.
RdDrop(k) ==
    /\ rd[k].esState = "open"
    /\ rd[k].drops < MaxDrops
    /\ rd' = [rd EXCEPT ![k].esState = "connecting",
                        ![k].drops = @ + 1,
                        ![k].droppedAt = Len(TurnEvents),
                        ![k].droppedTurn = IF srv.inFlight THEN srv.turn ELSE 0]
    /\ UNCHANGED srv

\* The effect's dependency sessionId changed: the cleanup closes the
\* EventSource and the effect opens one for the new identifier.
RdEffect(k) ==
    /\ rd[k].esState # "closed"
    /\ rd[k].sessionId # rd[k].esSid
    /\ rd' = [rd EXCEPT ![k].esState = "connecting", ![k].esSid = rd[k].sessionId]
    /\ UNCHANGED srv

\* ------------------------------------------------------------------------
\* The context meter (components/ContextMeter.tsx)
\* ------------------------------------------------------------------------

\* CONTEXT_WINDOW_SIZE, and COMPACT_THRESHOLD_PERCENT (77.5) in tenths of a
\* percent.
CONTEXT_WINDOW_SIZE == 200000
COMPACT_THRESHOLD_TENTHS == 775

\* percentToCompact = COMPACT_THRESHOLD_PERCENT - (inputTokens /
\* CONTEXT_WINDOW_SIZE) * 100, times 10 * CONTEXT_WINDOW_SIZE so that it is
\* an integer.
PercentToCompact(inputTokens) ==
    COMPACT_THRESHOLD_TENTHS * CONTEXT_WINDOW_SIZE - inputTokens * 1000

\* What the meter renders for a value.
Meter(placeholder, color) == [placeholder |-> placeholder, color |-> color]

\* A mutation of ContextMeter: red only past the threshold.
ContextMeterPast(inputTokens) ==
    IF inputTokens = NoCount THEN Meter(TRUE, "muted")
    ELSE IF PercentToCompact(inputTokens) < 0 THEN Meter(FALSE, "red")
    ELSE IF PercentToCompact(inputTokens) <= 10 * 10 * CONTEXT_WINDOW_SIZE
    THEN Meter(FALSE, "yellow")
    ELSE Meter(FALSE, "green")

\* ContextMeter({inputTokens}): the placeholder for null, else the
\* percentage in the colour of its zone.
ContextMeter(inputTokens) ==
    IF inputTokens = NoCount THEN Meter(TRUE, "muted")
    ELSE IF PercentToCompact(inputTokens) <= 0 THEN Meter(FALSE, "red")
    ELSE IF PercentToCompact(inputTokens) <= 10 * 10 * CONTEXT_WINDOW_SIZE
    THEN Meter(FALSE, "yellow")
    ELSE Meter(FALSE, "green")

\* The token counts a context event may carry: none, the ends of the scale
\* and the counts around the two thresholds.
TokenCounts ==
    {NoCount, 0, 1, 100000, 200000, 400000} \cup (134950..135050) \cup (154950..155050)

\* The context listener: setInputTokens(count); the header renders the
\* meter from the store's inputTokens.
OnContext(k, count) ==
    /\ rd[k].esState = "open"
    /\ rd' = [rd EXCEPT ![k].inputTokens = count]
    /\ UNCHANGED srv

\* The events a reader may be given, whatever the turn they were made for.
ListenEvents ==
    {TurnStart, TurnEnd, TextDelta("a"), ThinkingDelta("hm"), ToolCallEv("t1"),
     ToolResultEv("t1", "ok", FALSE)}

\* The number of turn-start events among the events.
TurnStarts(events) == Cardinality({i \in 1..Len(events) : events[i].type = "turn-start"})

\* The EventSource of the reader delivers an event: its listener runs.
RdReceive(k, ev) ==
    /\ rd[k].esState = "open"
    /\ Len(rd[k].recv) < MaxReceived
    /\ rd' = [rd EXCEPT ![k] =
                [OnEvent(rd[k], ev,
                         TurnStarts(rd[k].recv) + (IF ev.type = "turn-start" THEN 1 ELSE 0))
                   EXCEPT !.recv = Append(@, ev)]]
    /\ UNCHANGED srv

\* The events the translator may emit within a turn.
BodyEvents ==
    {TextDelta("a"), TextDelta("b"), ToolCallEv("t1"), ToolResultEv("t1", "ok", FALSE)}


\* ------------------------------------------------------------------------
\* The reader of POST /api/chat (useAssistantTransportRuntime and converter)
\* ------------------------------------------------------------------------

\* The agent state after the chunks of a response: each update-state chunk
\* sets messages, and sessionId when it carries one; the other chunks leave
\* the state alone.
RECURSIVE AgentState(_, _, _)
AgentState(state, out, i) ==
    IF i > Len(out) THEN state
    ELSE LET c == out[i]
             next == IF c.type = "update-state"
                     THEN [messages |-> c.messages,
                           sessionId |-> IF c.hasSessionId THEN c.sessionId
                                         ELSE state.sessionId]
                     ELSE state
         IN AgentState(next, out, i + 1)

\* converter(state, meta): the thread shown is the messages of the state
\* that have a role, each with its content.
Converter(state) ==
    [i \in 1..Len(state.messages) |->
        [role |-> state.messages[i].role, content |-> state.messages[i].content]]

\* What the reader shows once it has read the chunks `out` of a request
\* submitted with the messages `prior`.
ViewOf(prior, sid, out) ==
    Converter(AgentState([messages |-> prior, sessionId |-> sid], out, 1))

\* ------------------------------------------------------------------------
\* Specifications
\* ------------------------------------------------------------------------

\* One request at a time: a single turn from its submission to its end.
Next ==
    \/ \E c \in CommandLists, s \in {None, "s1"}, m \in PriorMessages :
          Post(1, c, s, m) /\ UNCHANGED <<clientVars, streamVars, routeVars>>
    \/ StartQuery(1, "data") /\ UNCHANGED <<clientVars, streamVars, routeVars>>
    \/ \E m \in RawMessages, ok \in BOOLEAN :
          OnMessage(1, m, ok) /\ UNCHANGED <<clientVars, streamVars, routeVars>>
    \/ OnStreamEnd(1) /\ UNCHANGED <<clientVars, streamVars, routeVars>>
    \/ OnStreamThrow(1) /\ UNCHANGED <<clientVars, streamVars, routeVars>>

Init == InitClient /\ InitChat /\ InitStream /\ InitPipe /\ InitHook /\ InitSessions

Spec == Init /\ [][Next]_vars

\* ---- two requests at once -------------------------------------------------

\* The raw messages of the turns of two requests served at the same time.
ConcMessages == {AssistantMsg(<<TextBlock("a")>>), ResultMsg("s1")}

\* Express serves every request as it arrives: the handlers of two requests
\* interleave at their awaits.
NextConc ==
    \/ \E r \in Reqs, s \in {None, "s1"} :
          Post(r, <<Command("add-message", TRUE, <<TextPart("hi")>>)>>, s, <<>>)
          /\ UNCHANGED <<clientVars, streamVars, routeVars>>
    \/ \E r \in Reqs : StartQuery(r, "data") /\ UNCHANGED <<clientVars, streamVars, routeVars>>
    \/ \E r \in Reqs, m \in ConcMessages, ok \in BOOLEAN :
          OnMessage(r, m, ok) /\ UNCHANGED <<clientVars, streamVars, routeVars>>
    \/ \E r \in Reqs : OnStreamEnd(r) /\ UNCHANGED <<clientVars, streamVars, routeVars>>
    \/ \E r \in Reqs : OnStreamThrow(r) /\ UNCHANGED <<clientVars, streamVars, routeVars>>

SpecConc == Init /\ [][NextConc]_vars

\* ---- turns one after another, the store and the clock ------------------

\* The raw messages of the turns that follow one another on a conversation.
StoreMessages == {CompactBoundary(CompactMeta), ResultMsg("s1")}

NoRequestRunning == \A r \in Reqs : req[r].pc \in {"idle", "rejected", "closed"}

\* Requests served one after another, numbered as they arrive, while time
\* passes and the store takes or refuses each write.
NextStore ==
    \/ \E r \in Reqs, s \in {None, "s1"} :
          /\ NoRequestRunning
          /\ r = nPosted + 1
          /\ Post(r, <<Command("add-message", TRUE, <<TextPart("hi")>>)>>, s, <<>>)
          /\ UNCHANGED <<clientVars, streamVars, routeVars>>
    \/ \E r \in Reqs : StartQuery(r, "data") /\ UNCHANGED <<clientVars, streamVars, routeVars>>
    \/ \E r \in Reqs, m \in StoreMessages, ok \in BOOLEAN :
          OnMessage(r, m, ok) /\ UNCHANGED <<clientVars, streamVars, routeVars>>
    \/ \E r \in Reqs : OnStreamEnd(r) /\ UNCHANGED <<clientVars, streamVars, routeVars>>
    \/ \E r \in Reqs : OnStreamThrow(r) /\ UNCHANGED <<clientVars, streamVars, routeVars>>
    \/ \E d \in {1, SquozeTtl} : Tick(d) /\ UNCHANGED <<clientVars, streamVars, routeVars>>

SpecStore == Init /\ [][NextStore]_vars

\* ---- one request, the store failing or not, the token-count route ------

NextAux ==
    \/ \E s \in {None, "s1"} :
          Post(1, <<Command("add-message", TRUE, <<TextPart("hi")>>)>>, s, <<>>)
          /\ UNCHANGED <<clientVars, streamVars, routeVars>>
    \/ \E hud \in HudOutcomes : StartQuery(1, hud) /\ UNCHANGED <<clientVars, streamVars, routeVars>>
    \/ \E m \in StoreMessages, ok \in BOOLEAN :
          OnMessage(1, m, ok) /\ UNCHANGED <<clientVars, streamVars, routeVars>>
    \/ OnStreamEnd(1) /\ UNCHANGED <<clientVars, streamVars, routeVars>>
    \/ OnStreamThrow(1) /\ UNCHANGED <<clientVars, streamVars, routeVars>>
    \/ \E s \in SessionIds, ok \in BOOLEAN :
          ContextGet(s, ok) /\ UNCHANGED <<clientVars, streamVars, routeVars>>

SpecAux == Init /\ [][NextAux]_vars

NoCallRunning == \A p \in Callers : call[p].pc = "idle"

\* get_client called again and again, each call after the previous one has
\* returned or raised.
NextClientSeq ==
    \/ \E p \in Callers, s \in SessionArgs :
          NoCallRunning /\ GetClientCall(p, s) /\ UNCHANGED <<chatVars, streamVars, routeVars>>
    \/ \E p \in Callers : GetClientExited(p) /\ UNCHANGED <<chatVars, streamVars, routeVars>>
    \/ \E p \in Callers : GetClientEntered(p) /\ UNCHANGED <<chatVars, streamVars, routeVars>>
    \/ \E p \in Callers : GetClientEnterFailed(p) /\ UNCHANGED <<chatVars, streamVars, routeVars>>

SpecClient == Init /\ [][NextClientSeq]_vars

\* get_client called by the coroutines of requests served at the same time:
\* a call may start while another is suspended at an await.
NextClientConc ==
    \/ \E p \in Callers, s \in SessionArgs :
          GetClientCall(p, s) /\ UNCHANGED <<chatVars, streamVars, routeVars>>
    \/ \E p \in Callers : GetClientExited(p) /\ UNCHANGED <<chatVars, streamVars, routeVars>>
    \/ \E p \in Callers : GetClientEntered(p) /\ UNCHANGED <<chatVars, streamVars, routeVars>>
    \/ \E p \in Callers : GetClientEnterFailed(p) /\ UNCHANGED <<chatVars, streamVars, routeVars>>

SpecClientConc == Init /\ [][NextClientConc]_vars

\* ---- one request and the pipe to its client -----------------------------

\* The raw messages of the turn whose stream is piped.
PipeMessages ==
    { AssistantMsg(<<TextBlock("a")>>),
      AssistantMsg(<<ToolUse("t1")>>),
      UserMsg(<<ToolResult("t1", "ok", FALSE)>>),
      ResultMsg("s1") }

\* The handler's stream callback and its pipe loop run side by side; the
\* client may go at any moment.
NextPipe ==
    \/ \E s \in {None, "s1"} :
          Post(1, <<Command("add-message", TRUE, <<TextPart("hi")>>)>>, s, <<>>)
          /\ UNCHANGED <<clientVars, streamVars, routeVars>>
    \/ StartQuery(1, "data") /\ UNCHANGED <<clientVars, streamVars, routeVars>>
    \/ \E m \in PipeMessages :
          OnMessage(1, m, TRUE) /\ UNCHANGED <<clientVars, streamVars, routeVars>>
    \/ OnStreamEnd(1) /\ UNCHANGED <<clientVars, streamVars, routeVars>>
    \/ OnStreamThrow(1) /\ UNCHANGED <<clientVars, streamVars, routeVars>>
    \/ ClientGone(1) /\ UNCHANGED <<clientVars, streamVars>>
    \/ \E throws \in BOOLEAN : PipeRead(1, throws) /\ UNCHANGED <<clientVars, streamVars>>

SpecPipe == Init /\ [][NextPipe]_vars

\* The pipe loop is a chain of awaits on reader.read(): as long as the
\* stream holds a chunk the loop has not read, its next iteration runs.
SpecPipeFair == SpecPipe /\ WF_vars(\E throws \in BOOLEAN : PipeRead(1, throws) /\ UNCHANGED <<clientVars, streamVars>>)

\* ---- a Subvox hook call --------------------------------------------------

\* The exit codes of the script.
ExitCodes == {0, 1}

\* The hook is called; its process writes, fails to start or closes.
NextHook ==
    \/ \E kind \in HookKinds : HookCall(kind) /\ UNCHANGED <<clientVars, chatVars, streamVars>>
    \/ \E c \in StdoutChars : ProcStdout(c) /\ UNCHANGED <<clientVars, chatVars, streamVars>>
    \/ ProcStderr /\ UNCHANGED <<clientVars, chatVars, streamVars>>
    \/ \E code \in ExitCodes : ProcClose(code) /\ UNCHANGED <<clientVars, chatVars, streamVars>>
    \/ ProcError /\ UNCHANGED <<clientVars, chatVars, streamVars>>

SpecHook == Init /\ [][NextHook]_vars

\* ---- a request to a session route --------------------------------------

NoRequestAnswered == sess = NoAnswer

\* The routes keep nothing from one request to the next: one request of a
\* run is followed, to either route.
NextSessions ==
    \/ /\ NoRequestAnswered
       /\ \E sid \in FileIds, exists \in BOOLEAN, file \in Logs :
             GetSession(sid, exists, file) /\ UNCHANGED <<clientVars, chatVars, streamVars>>
    \/ /\ NoRequestAnswered
       /\ \E dirExists \in BOOLEAN, dir \in Dirs(MaxFiles), limitArg \in LimitArgs :
             ListSessions(dirExists, dir, limitArg)
             /\ UNCHANGED <<clientVars, chatVars, streamVars>>

SpecSessions == Init /\ [][NextSessions]_vars


\* One reader of one conversation.
NextReader ==
    \/ \E loaded \in BOOLEAN : RdMount(1, loaded) /\ UNCHANGED <<clientVars, chatVars, routeVars>>
    \/ OnNewSend(1, "hi") /\ UNCHANGED <<clientVars, chatVars, routeVars>>
    \/ OnNewFailed(1) /\ UNCHANGED <<clientVars, chatVars, routeVars>>
    \/ SrvAccept(1) /\ UNCHANGED <<clientVars, chatVars, routeVars>>
    \/ SrvTurnStart /\ UNCHANGED <<clientVars, chatVars, routeVars>>
    \/ \E ev \in BodyEvents : SrvEmit(ev) /\ UNCHANGED <<clientVars, chatVars, routeVars>>
    \/ SrvSessionId("s1") /\ UNCHANGED <<clientVars, chatVars, routeVars>>
    \/ SrvTurnEnd /\ UNCHANGED <<clientVars, chatVars, routeVars>>
    \/ SrvOpen(1) /\ UNCHANGED <<clientVars, chatVars, routeVars>>
    \/ RdDrop(1) /\ UNCHANGED <<clientVars, chatVars, routeVars>>
    \/ RdEffect(1) /\ UNCHANGED <<clientVars, chatVars, routeVars>>

SpecReader == Init /\ [][NextReader]_vars

\* ---- a reader and the events it is given ------------------------------

\* The reader of a conversation is given events in any order, also events
\* that arrive after a turn's terminal marker.
NextListen ==
    \/ \E loaded \in BOOLEAN : RdMount(1, loaded) /\ UNCHANGED <<clientVars, chatVars, routeVars>>
    \/ SrvOpen(1) /\ UNCHANGED <<clientVars, chatVars, routeVars>>
    \/ \E ev \in ListenEvents : RdReceive(1, ev) /\ UNCHANGED <<clientVars, chatVars, routeVars>>

SpecListen == Init /\ [][NextListen]_vars

\* ---- two readers of one conversation ----------------------------------

\* Two browser tabs on the same conversation; the first submits.
NextTabs ==
    \/ \E k \in Readers : RdMount(k, TRUE) /\ UNCHANGED <<clientVars, chatVars, routeVars>>
    \/ \E k \in Readers : SrvOpen(k) /\ UNCHANGED <<clientVars, chatVars, routeVars>>
    \/ OnNewSend(1, "hi") /\ UNCHANGED <<clientVars, chatVars, routeVars>>
    \/ SrvAccept(1) /\ UNCHANGED <<clientVars, chatVars, routeVars>>
    \/ SrvTurnStart /\ UNCHANGED <<clientVars, chatVars, routeVars>>
    \/ \E ev \in BodyEvents : SrvEmit(ev) /\ UNCHANGED <<clientVars, chatVars, routeVars>>
    \/ SrvTurnEnd /\ UNCHANGED <<clientVars, chatVars, routeVars>>
    \/ \E k \in Readers : RdDrop(k) /\ UNCHANGED <<clientVars, chatVars, routeVars>>

SpecTabs == Init /\ [][NextTabs]_vars

\* ---- a reader that interrupts -----------------------------------------

NextInterrupt ==
    \/ \E loaded \in BOOLEAN : RdMount(1, loaded) /\ UNCHANGED <<clientVars, chatVars, routeVars>>
    \/ SrvOpen(1) /\ UNCHANGED <<clientVars, chatVars, routeVars>>
    \/ OnNewSend(1, "hi") /\ UNCHANGED <<clientVars, chatVars, routeVars>>
    \/ SrvAccept(1) /\ UNCHANGED <<clientVars, chatVars, routeVars>>
    \/ SrvTurnStart /\ UNCHANGED <<clientVars, chatVars, routeVars>>
    \/ \E ev \in BodyEvents : SrvEmit(ev) /\ UNCHANGED <<clientVars, chatVars, routeVars>>
    \/ SrvSessionId("s1") /\ UNCHANGED <<clientVars, chatVars, routeVars>>
    \/ SrvTurnEnd /\ UNCHANGED <<clientVars, chatVars, routeVars>>
    \/ OnCancel(1) /\ UNCHANGED <<clientVars, chatVars, routeVars>>

SpecInterrupt == Init /\ [][NextInterrupt]_vars

\* ---- a reader that goes to another conversation -----------------------

\* The reader opens a conversation, submits, goes back to the home page and
\* opens the other conversation, to which nothing is submitted.
NextSwitch ==
    \/ \E loaded \in BOOLEAN : RdMount(1, loaded) /\ UNCHANGED <<clientVars, chatVars, routeVars>>
    \/ SrvOpen(1) /\ UNCHANGED <<clientVars, chatVars, routeVars>>
    \/ OnConversation(1) /\ OnNewSend(1, "hi") /\ UNCHANGED <<clientVars, chatVars, routeVars>>
    \/ SrvAccept(1) /\ UNCHANGED <<clientVars, chatVars, routeVars>>
    \/ SrvTurnStart /\ UNCHANGED <<clientVars, chatVars, routeVars>>
    \/ \E ev \in BodyEvents : SrvEmit(ev) /\ UNCHANGED <<clientVars, chatVars, routeVars>>
    \/ SrvSessionId("s1") /\ UNCHANGED <<clientVars, chatVars, routeVars>>
    \/ SrvTurnEnd /\ UNCHANGED <<clientVars, chatVars, routeVars>>
    \/ RdLeave(1) /\ UNCHANGED <<clientVars, chatVars, routeVars>>
    \/ RdLoadOther(1) /\ UNCHANGED <<clientVars, chatVars, routeVars>>

SpecSwitch == Init /\ [][NextSwitch]_vars

\* ---- a reader that submits while a turn is pending ---------------------

\* The reader submits again before the turn of its earlier submission has
\* started or ended; the turns run one after the other.
NextQueue ==
    \/ \E loaded \in BOOLEAN : RdMount(1, loaded) /\ UNCHANGED <<clientVars, chatVars, routeVars>>
    \/ SrvOpen(1) /\ UNCHANGED <<clientVars, chatVars, routeVars>>
    \/ srv.submitted < MaxQueue /\ OnNew(1, "hi", <<>>) /\ UNCHANGED <<clientVars, chatVars, routeVars>>
    \/ SrvAccept(1) /\ UNCHANGED <<clientVars, chatVars, routeVars>>
    \/ SrvTurnStart /\ UNCHANGED <<clientVars, chatVars, routeVars>>
    \/ SrvEmit(TextDelta("a")) /\ UNCHANGED <<clientVars, chatVars, routeVars>>
    \/ SrvSessionId("s1") /\ UNCHANGED <<clientVars, chatVars, routeVars>>
    \/ SrvTurnEnd /\ UNCHANGED <<clientVars, chatVars, routeVars>>

SpecQueue == Init /\ [][NextQueue]_vars

\* The same, and a POST may fail.
NextQueueFail ==
    \/ NextQueue
    \/ OnNewFailed(1) /\ UNCHANGED <<clientVars, chatVars, routeVars>>

SpecQueueFail == Init /\ [][NextQueueFail]_vars

\* ---- submissions with and without content ------------------------------

\* What the composer may hold when send is used.
ComposerTexts == {"", "  ", "hi"}
ComposerImages == {<<>>, <<DataUrl>>}

\* One request to the backend with any of the command lists, and a reader
\* whose composer is sent with and without content.
NextSubmit ==
    \/ \E c \in CommandLists, s \in {None, "s1"}, m \in PriorMessages :
          Post(1, c, s, m) /\ UNCHANGED <<clientVars, streamVars, routeVars>>
    \/ StartQuery(1, "data") /\ UNCHANGED <<clientVars, streamVars, routeVars>>
    \/ OnMessage(1, ResultMsg("s1"), TRUE) /\ UNCHANGED <<clientVars, streamVars, routeVars>>
    \/ OnStreamEnd(1) /\ UNCHANGED <<clientVars, streamVars, routeVars>>
    \/ RdMount(1, FALSE) /\ UNCHANGED <<clientVars, chatVars, routeVars>>
    \/ SrvOpen(1) /\ UNCHANGED <<clientVars, chatVars, routeVars>>
    \/ /\ rd[1].calls < MaxSubmits
       /\ \E text \in ComposerTexts, attachments \in ComposerImages :
             OnNew(1, text, attachments) /\ UNCHANGED <<clientVars, chatVars, routeVars>>
    \/ SrvAccept(1) /\ UNCHANGED <<clientVars, chatVars, routeVars>>

SpecSubmit == Init /\ [][NextSubmit]_vars

\* ---- a reader and its context meter ------------------------------------

NextMeter ==
    \/ \E loaded \in BOOLEAN : RdMount(1, loaded) /\ UNCHANGED <<clientVars, chatVars, routeVars>>
    \/ SrvOpen(1) /\ UNCHANGED <<clientVars, chatVars, routeVars>>
    \/ \E count \in TokenCounts : OnContext(1, count) /\ UNCHANGED <<clientVars, chatVars, routeVars>>

SpecMeter == Init /\ [][NextMeter]_vars

\* ------------------------------------------------------------------------
\* C7, C8, C9
\* ------------------------------------------------------------------------

\* C7: in every state of a reader, a tool call of a live turn's assistant
\* message holds a result only if a tool-result event with its identifier
\* came after a tool-call event with that identifier in the same turn, and
\* it holds that event's result; no tool call of a message of another turn
\* (a loaded one, an earlier one) is ever given a result.
C7_ResultsBelongToTurn ==
    \A k \in Readers :
       \A i \in 1..Len(rd[k].messages) :
          LET m == rd[k].messages[i]
          IN \A j \in 1..Len(m.content) :
                (m.content[j].type = "tool-call" /\ m.content[j].hasResult)
                => /\ m.role = "assistant"
                   /\ m.turn \in 1..srv.turn
                   /\ \E p, q \in 1..Len(srv.hist[m.turn]) :
                         /\ p < q
                         /\ srv.hist[m.turn][p] = ToolCallEv(m.content[j].toolCallId)
                         /\ srv.hist[m.turn][q] =
                               ToolResultEv(m.content[j].toolCallId, m.content[j].result,
                                            m.content[j].isError)

\* The loaded history holds the tool call t1 without a result; the live
\* turn made a tool call t1 of its own, which holds the result.
C7_Witness ==
    /\ Len(rd[1].messages) >= 4
    /\ rd[1].messages[2].turn = 0
    /\ rd[1].messages[2].content[1].toolCallId = "t1"
    /\ ~rd[1].messages[2].content[1].hasResult
    /\ \E i \in 3..Len(rd[1].messages) :
          /\ rd[1].messages[i].turn = 1
          /\ rd[1].messages[i].content # <<>>
          /\ rd[1].messages[i].content[1].toolCallId = "t1"
          /\ rd[1].messages[i].content[1].hasResult
          /\ rd[1].messages[i].content[1].result = "ok"

\* C8: a reader whose stream is open while a turn is in flight has received,
\* since it was opened or since the turn began, exactly the turn's events
\* from its turn-start on, in order, whatever it had received before it
\* lost the connection; a reader that received the turn-end received the
\* whole turn.
C8_ReplayFromTurnStart ==
    \A k \in Readers :
       /\ (rd[k].esState = "open" /\ srv.inFlight) => rd[k].recv = TurnEvents
       /\ (/\ rd[k].esState = "open"
           /\ rd[k].recv # <<>>
           /\ rd[k].recv[Len(rd[k].recv)].type = "turn-end")
          => rd[k].recv = TurnEvents

\* The reader lost the connection after two events of the turn in flight,
\* is connected again, and a live event has followed the replay.
C8_Witness ==
    /\ rd[1].drops > 0
    /\ rd[1].droppedTurn = srv.turn
    /\ rd[1].droppedAt >= 2
    /\ rd[1].esState = "open"
    /\ srv.inFlight
    /\ Len(TurnEvents) > rd[1].droppedAt
    /\ rd[1].recv = TurnEvents

\* C9: after a reconnect in the middle of a turn and the replay of the
\* turn from its turn-start, the reader's store holds exactly one assistant
\* message for the turn.
C9_OneMessagePerTurn ==
    \A k \in Readers :
       \A t \in 1..srv.turn :
          Cardinality({i \in 1..Len(rd[k].messages) :
                          rd[k].messages[i].role = "assistant" /\ rd[k].messages[i].turn = t}) <= 1

\* ------------------------------------------------------------------------
\* C2, C3
\* ------------------------------------------------------------------------

\* Request a was received before request b, for the same conversation, and
\* both were accepted.
TurnBefore(a, b) ==
    /\ a # b
    /\ req[a].pc \in {"accepted", "streaming", "closed"}
    /\ req[b].pc \in {"accepted", "streaming", "closed"}
    /\ req[a].order < req[b].order
    /\ req[a].sessionId \in SessionIds
    /\ req[a].sessionId = req[b].sessionId

\* C2: a turn submitted while an earlier turn of the same conversation is
\* in flight is accepted, and none of its events is delivered before the
\* earlier turn's terminal event.
C2_NoInterleaving ==
    \A a, b \in Reqs :
       TurnBefore(a, b) /\ Len(req[b].out) > 0 => req[a].pc = "closed"

\* C3: at most one turn of a conversation is being processed by the agent
\* runtime: the query of a later turn does not start before the earlier
\* turn has sealed.
C3_OneQueryPerConversation ==
    \A a, b \in Reqs :
       TurnBefore(a, b) /\ req[b].pc = "streaming" => req[a].pc = "closed"

\* ------------------------------------------------------------------------
\* Observations on a turn of POST /api/chat
\* ------------------------------------------------------------------------

RECURSIVE Flatten(_)
\* The content blocks of the assistant and user messages of a raw log, in
\* arrival order.
Flatten(log) ==
    IF log = <<>> THEN <<>>
    ELSE LET m == Head(log)
         IN (IF m.type \in {"assistant", "user"} THEN m.content ELSE <<>>) \o Flatten(Tail(log))

RECURSIVE JoinText(_)
\* The texts of the items of type "text" of a sequence, joined in order.
JoinText(items) ==
    IF items = <<>> THEN ""
    ELSE (IF Head(items).type = "text" THEN Head(items).text ELSE "") \o JoinText(Tail(items))

IsToolUse(b) == b.type = "tool_use"
IsToolCall(part) == part.type = "tool-call"
IsResultMsg(m) == m.type = "result"

\* The position, among the blocks, of the k-th tool_use block.
UsePosition(blocks, k) ==
    CHOOSE i \in 1..Len(blocks) :
       /\ IsToolUse(blocks[i])
       /\ Cardinality({j \in 1..i : IsToolUse(blocks[j])}) = k

\* The positions of the tool_result blocks for `id` that arrive after
\* position `from`.
ResultsAfter(blocks, id, from) ==
    {i \in 1..Len(blocks) : i > from /\ blocks[i].type = "tool_result" /\ blocks[i].id = id}

\* C4: the text of a turn, rebuilt from the text parts of the assistant
\* content or from the text chunks streamed to the reader, is the text of
\* the raw text fragments joined in arrival order, whatever the fragment
\* boundaries were: nothing is reordered, dropped or doubled.
C4_TextInArrivalOrder ==
    \A r \in Reqs :
       LET q == req[r]
           sent == SelectSeq(q.out, LAMBDA c : c.type = "text" /\ c.text # ErrorText)
       IN /\ JoinText(q.cac) = JoinText(Flatten(q.rawLog))
          /\ JoinText(sent) = JoinText(Flatten(q.rawLog))

\* The text "ab" has arrived as the two fragments "a" and "b" in two
\* raw messages and the turn has ended.
C4_Witness ==
    /\ req[1].pc = "closed"
    /\ req[1].status = "complete"
    /\ Len(req[1].rawLog) = 2
    /\ req[1].rawLog[1] = AssistantMsg(<<TextBlock("a")>>)
    /\ req[1].rawLog[2] = AssistantMsg(<<TextBlock("b")>>)
    /\ req[1].cac = <<TextPart("ab")>>

\* C5: within a turn every tool_use block is kept as a tool-call part, in
\* order; the first tool call with an identifier holds the latest result
\* that arrived for that identifier after it, every other tool call with
\* that identifier holds none, and a tool call for which no result has
\* arrived stays, without a result.
C5_ToolCorrelation ==
    \A r \in Reqs :
       LET q == req[r]
           blocks == Flatten(q.rawLog)
           uses == SelectSeq(blocks, IsToolUse)
           calls == SelectSeq(q.cac, IsToolCall)
       IN /\ Len(calls) = Len(uses)
          /\ \A k \in 1..Len(calls) :
                /\ calls[k].toolCallId = uses[k].id
                /\ calls[k].toolName = uses[k].name
                /\ LET first == \A j \in 1..(k - 1) : calls[j].toolCallId # calls[k].toolCallId
                       after == ResultsAfter(blocks, calls[k].toolCallId, UsePosition(blocks, k))
                   IN IF first /\ after # {}
                      THEN /\ calls[k].hasResult
                           /\ calls[k].result = blocks[MaxOf(after)].content
                           /\ calls[k].isError = blocks[MaxOf(after)].is_error
                      ELSE /\ ~calls[k].hasResult
                           /\ calls[k].result = None

\* Two tool calls share the identifier t1, a result for t1 arrived, the
\* first call holds it and the second stays pending.
C5_Witness ==
    /\ req[1].pc = "closed"
    /\ Len(req[1].cac) = 2
    /\ req[1].cac[1].toolCallId = "t1" /\ req[1].cac[1].hasResult /\ req[1].cac[1].result = "ok"
    /\ req[1].cac[2].toolCallId = "t1" /\ ~req[1].cac[2].hasResult

\* The tool_result blocks of message m that match no tool call of cac.
Orphans(cac, m) ==
    {i \in 1..Len(m.content) :
        m.content[i].type = "tool_result" /\ MatchingCalls(cac, m.content[i].id) = {}}

\* C6: a user message whose tool results match no earlier tool call of the
\* turn changes no part of the assistant content, the state delivered after
\* it is the state as it was, the turn is not failed by it, and a turn that
\* ends after it is sealed as complete with the close marker last.
C6_OrphanDropped ==
    [][\A r \in Reqs :
         LET q == req[r]
             n == req'[r]
         IN (/\ q.pc = "streaming"
             /\ Len(n.rawLog) = Len(q.rawLog) + 1
             /\ n.rawLog[Len(n.rawLog)].type = "user"
             /\ LET m == n.rawLog[Len(n.rawLog)]
                IN /\ Orphans(q.cac, m) # {}
                   /\ Cardinality(Orphans(q.cac, m)) = Len(m.content))
            => /\ n.cac = q.cac
               /\ n.pc = "streaming"
               /\ n.status = "none"
               /\ Len(n.out) = Len(q.out) + 1
               /\ n.out[Len(n.out)].type = "update-state"
               /\ n.out[Len(n.out)].messages =
                     (IF Len(q.cac) > 0
                      THEN Append(q.rsMessages, Message("assistant", q.cac))
                      ELSE q.rsMessages)
               /\ \A i \in 1..Len(n.out[Len(n.out)].messages) :
                     \A j \in 1..Len(n.out[Len(n.out)].messages[i].content) :
                        ~n.out[Len(n.out)].messages[i].content[j].hasResult
                        \/ (/\ Len(q.cac) > 0
                            /\ i = Len(n.out[Len(n.out)].messages)
                            /\ q.cac[j].hasResult)
      ]_vars

\* A result for t2 arrived when only the tool call t1 existed, and the turn
\* was sealed as complete: t1 is pending and nothing delivered holds a result.
C6_Witness ==
    /\ req[1].pc = "closed"
    /\ req[1].status = "complete"
    /\ Len(req[1].rawLog) = 2
    /\ req[1].rawLog[1] = AssistantMsg(<<ToolUse("t1")>>)
    /\ req[1].rawLog[2] = UserMsg(<<ToolResult("t2", "bad", TRUE)>>)
    /\ req[1].out[Len(req[1].out)] = CloseChunk
    /\ req[1].cac = <<ToolCallPart("t1", "Read", "x")>>

\* The session identifier of the last turn-result of a raw log.
LastResultSid(log) ==
    LET results == SelectSeq(log, IsResultMsg)
    IN results[Len(results)].session_id

\* C10: a turn that ends normally after a turn-result hands the reader the
\* session identifier of that turn-result in the state update that directly
\* precedes the close marker, and the close marker is the last chunk and
\* the only one: the turn is sealed at no earlier point.
C10_SessionIdBeforeSeal ==
    \A r \in Reqs :
       LET q == req[r]
           n == Len(q.out)
       IN /\ \A i \in 1..n : q.out[i].type = "close" => (i = n /\ q.pc = "closed")
          /\ (q.pc = "closed" /\ q.status = "complete" /\ SelectSeq(q.rawLog, IsResultMsg) # <<>>)
             => /\ n >= 2
                /\ q.out[n].type = "close"
                /\ q.out[n - 1].type = "update-state"
                /\ q.out[n - 1].hasSessionId
                /\ q.out[n - 1].sessionId = LastResultSid(q.rawLog)

\* A turn submitted without a session identifier has ended normally with
\* the identifier s1 assigned by the runtime.
C10_Witness ==
    /\ req[1].pc = "closed"
    /\ req[1].status = "complete"
    /\ req[1].sessionId = None
    /\ SelectSeq(req[1].rawLog, IsResultMsg) # <<>>
    /\ LastResultSid(req[1].rawLog) = "s1"
    /\ req[1].out[Len(req[1].out) - 1].sessionId = "s1"

\* ------------------------------------------------------------------------
\* C1
\* ------------------------------------------------------------------------

\* C1: after any sequence of get_client calls at most one client is live at
\* any instant, and every client constructed before the one being entered or
\* in use has been fully torn down (its __aexit__ has finished).
C1_SingleLiveClient ==
    /\ Cardinality(LiveClients) <= 1
    /\ \A n \in ClientIds :
          clients[n] \in {"entering", "live"} =>
             \A m \in ClientIds : m < n => clients[m] = "closed"

\* A second client is live after a switch of the session identifier, and
\* the first one is closed.
C1_Witness ==
    \E n \in ClientIds :
       /\ n > 1
       /\ clients[n] = "live"
       /\ clients[1] = "closed"
       /\ gSession \in SessionIds

\* ------------------------------------------------------------------------
\* C11, C12
\* ------------------------------------------------------------------------

\* The chunks of a sequence that are the error text.
ErrorChunks(out) == {i \in 1..Len(out) : out[i] = TextChunk(ErrorText)}

\* C11: when the runtime's stream raises in the middle of a turn, the
\* response carries exactly one error text, the close follows it at once
\* and the turn is errored; from then on the request does nothing more (no
\* second query, no further chunk).
C11_OneErrorThenClosed ==
    /\ [](\A r \in Reqs :
            req[r].status = "errored"
            => /\ req[r].pc = "closed"
               /\ Cardinality(ErrorChunks(req[r].out)) = 1
               /\ Len(req[r].out) >= 2
               /\ req[r].out[Len(req[r].out) - 1] = TextChunk(ErrorText)
               /\ req[r].out[Len(req[r].out)] = CloseChunk)
    /\ [](\A r \in Reqs : req[r].status # "errored" => ErrorChunks(req[r].out) = {})
    /\ [][\A r \in Reqs : req[r].status = "errored" => req'[r] = req[r]]_vars

\* The stream raised after two raw messages had been handled.
C11_Witness ==
    /\ req[1].status = "errored"
    /\ Len(req[1].rawLog) = 2
    /\ req[1].pc = "closed"

\* C12: when a turn errors after text or tool calls were delivered, the
\* last message the reader shows is the turn's assistant message: the
\* content delivered before the failure, followed by the error text.
C12_PartialThenNotice ==
    \A r \in Reqs :
       (req[r].status = "errored" /\ Len(req[r].cac) > 0)
       => LET view == ViewOf(<<>>, req[r].sessionId, req[r].out)
          IN /\ Len(view) > 0
             /\ view[Len(view)].role = "assistant"
             /\ view[Len(view)].content = TrackText(req[r].cac, ErrorText)

\* ------------------------------------------------------------------------
\* C13, C15, C17
\* ------------------------------------------------------------------------

\* The compaction boundaries among the raw messages of a log, in order.
Boundaries(log) ==
    SelectSeq(log, LAMBDA m : m.type = "system" /\ m.subtype = "compact_boundary")

\* C13: for every compaction boundary a turn's raw stream has reported, the
\* handler has sent one write of {trigger, preTokens, timestamp} with the
\* 3600-second expiry, under the key of the conversation's session
\* identifier, whether the request carried the identifier or not.
C13_MarkerWritten ==
    \A r \in Reqs :
       LET bs == Boundaries(req[r].rawLog)
       IN /\ Len(req[r].setex) = Len(bs)
          /\ \A i \in 1..Len(req[r].setex) :
                /\ req[r].setex[i].ttl = 3600
                /\ req[r].setex[i].value.trigger = bs[i].compact_metadata.trigger
                /\ req[r].setex[i].value.pre_tokens = bs[i].compact_metadata.pre_tokens
                /\ req[r].setex[i].value.timestamp >= 0
                /\ req[r].sessionId # None => req[r].setex[i].key = SquozeKey(req[r].sessionId)

\* C15: for every compaction boundary a turn's raw stream has reported, the
\* response already carries a status chunk saying "compacting", whatever
\* became of the marker write.
C15_CompactingStatus ==
    \A r \in Reqs :
       Cardinality({i \in 1..Len(req[r].out) :
                       req[r].out[i].type = "status" /\ req[r].out[i].text = "compacting"})
          >= Len(Boundaries(req[r].rawLog))

\* The types of the chunks the translation of a raw message gives: a text
\* chunk per text block and a tool-call chunk per tool_use block, then a
\* state update; a state update alone for a user or system message; none
\* for a result.
RECURSIVE BlockTypes(_)
BlockTypes(blocks) ==
    IF blocks = <<>> THEN <<>>
    ELSE (CASE Head(blocks).type = "text" -> <<"text">>
            [] Head(blocks).type = "tool_use" -> <<"tool-call">>
            [] OTHER -> <<>>) \o BlockTypes(Tail(blocks))

RECURSIVE TypesOf(_)
TypesOf(log) ==
    IF log = <<>> THEN <<>>
    ELSE (CASE Head(log).type = "assistant" -> BlockTypes(Head(log).content) \o <<"update-state">>
            [] Head(log).type \in {"user", "system"} -> <<"update-state">>
            [] OTHER -> <<>>) \o TypesOf(Tail(log))

\* C17: while the turn is streaming, the response holds the chunks of every
\* raw message taken from the runtime so far: after the first state update,
\* the chunks of the messages in their order, none kept for the end.
C17_NoBuffering ==
    \A r \in Reqs :
       req[r].pc = "streaming"
       => [i \in 1..Len(req[r].out) |-> req[r].out[i].type]
             = <<"update-state">> \o TypesOf(req[r].rawLog)

\* Two raw messages taken, the turn still running, their text, tool call
\* and state updates already in the response.
C17_Witness ==
    /\ req[1].pc = "streaming"
    /\ Len(req[1].rawLog) = 2
    /\ Len(req[1].out) >= 6

\* ------------------------------------------------------------------------
\* C14, C16
\* ------------------------------------------------------------------------

\* C14: when the query of a turn starts on a conversation whose marker is
\* in the store and has not expired, the turn is given the marker (its
\* hooks add something besides the session tag to the prompt) and the
\* marker is gone from the store afterwards.
C14_MarkerReadThenDeleted ==
    [][\A r \in Reqs :
          (/\ req[r].pc = "accepted"
           /\ req'[r].pc = "streaming"
           /\ req[r].sessionId # None
           /\ Has(redis, SquozeKey(req[r].sessionId)))
          => /\ Len(req'[r].additionalContext) > Len(InjectSessionTag(req[r].sessionId))
             /\ ~Has(redis', SquozeKey(req[r].sessionId))]_vars

\* C16: a request becomes errored only when the runtime's stream raises:
\* never at the dynamic-context fetch, whatever the store answers, and never
\* while a raw message is handled, whatever becomes of the marker write;
\* the token-count route always answers 200, with the stored count or with
\* nulls.
C16_StoreFailureTolerated ==
    /\ [][\A r \in Reqs :
            /\ (req[r].pc = "accepted" /\ req'[r].pc # "accepted")
               => (req'[r].pc = "streaming" /\ req'[r].status = "none")
            /\ (req'[r].rawLog # req[r].rawLog /\ req[r].pc = "streaming")
               => (req'[r].pc = "streaming" /\ req'[r].status = "none"
                   /\ Len(req'[r].out) > Len(req[r].out) - 1)
            /\ (req'[r].status = "errored" /\ req[r].status # "errored")
               => (req[r].pc = "streaming" /\ req'[r].rawLog = req[r].rawLog)]_vars
    /\ [](LET key == ContextKey(ctxRes.sessionId)
              nulls == ctxRes.input_tokens = None /\ ctxRes.timestamp = -1
              stored == Has(redis, key) /\ ctxRes.input_tokens = Get(redis, key).input_tokens
          IN ctxRes # NoResponse
             => (ctxRes.status = 200 /\ ctxRes.sessionId \in SessionIds /\ (nulls \/ stored)))

\* A turn that got no dynamic context and whose marker write was refused
\* has completed, and the token count of s1, which the store holds, was
\* answered with nulls.
C16_Witness ==
    /\ req[1].status = "complete"
    /\ req[1].dynamicContext = None
    /\ req[1].setex # <<>>
    /\ ~redis.data[SquozeKey("s1")].present
    /\ ctxRes = Response("s1", 200, None, -1)
    /\ Has(redis, ContextKey("s1"))

\* ------------------------------------------------------------------------
\* C18, C19, C20
\* ------------------------------------------------------------------------

\* The identifier the runtime assigns to the conversation that was started
\* without one.
NewConversationId == "s1"

\* Whether a turn submitted with the identifier b continues the
\* conversation whose previous turn was submitted with a.
SameConversation(a, b) ==
    \/ (a = b /\ a # None)
    \/ (a = None /\ b = NewConversationId)

\* C18: a get_client call for the next turn of the conversation the live
\* client serves returns that client, and no client is torn down or
\* created; this includes the second turn of a conversation whose first
\* turn carried no identifier.
C18_ClientReused ==
    [][\A p \in Callers :
          (/\ nCalls' = nCalls + 1
           /\ call'[p] # call[p]
           /\ gClient # 0
           /\ clients[gClient] = "live"
           /\ SameConversation(gSession, call'[p].sid))
          => /\ clients' = clients
             /\ gClient' = gClient
             /\ call'[p].outcome = "returned"
             /\ call'[p].ret = gClient]_vars

\* C19: after a failed creation no client is bound (the failed one is not
\* kept), and no call is answered with a failed client.
C19_FailedClientDropped ==
    /\ gClient # 0 => clients[gClient] # "failed"
    /\ \A p \in Callers :
          call[p].outcome = "returned" => clients[call[p].ret] # "failed"

\* C20: under every interleaving of concurrent get_client calls at most one
\* client is live, and a call that created a client for its identifier
\* returns that client.
C20_ConcurrentSerialized ==
    /\ [](Cardinality(LiveClients) <= 1)
    /\ [][\A p \in Callers :
            (call[p].pc = "entering" /\ call'[p].outcome = "returned")
            => call'[p].ret = call[p].target]_vars

\* ------------------------------------------------------------------------
\* C21
\* ------------------------------------------------------------------------

\* The chunks of a request's stream that are an error notice.
ErrorNotices(r) == {i \in 1..Len(req[r].out) : req[r].out[i] = TextChunk(ErrorText)}

\* C21: a write to a client that has gone is that reader's departure only.
\* No step of the pipe loop changes anything of the turn; a turn is
\* errored only when the runtime threw (its stream holds the error
\* notice), never because a write failed; and with the client gone and the
\* pipe ended the turn can still run to its terminal event.
C21_WriteFailureIsDeparture ==
    /\ [][\A r \in Reqs : res'[r] # res[r] => req'[r] = req[r]]_vars
    /\ [](\A r \in Reqs : req[r].status = "errored" => ErrorNotices(r) # {})
    /\ [](\A r \in Reqs : (res[r].gone /\ req[r].pc = "streaming")
                            => ENABLED OnStreamEnd(r))

\* The client went during the turn, a write to it threw and ended the
\* pipe, and the turn was processed to its end as complete.
C21_Witness ==
    /\ res[1].gone
    /\ res[1].failed
    /\ res[1].ended
    /\ req[1].status = "complete"
    /\ res[1].written < Len(req[1].out)
    /\ Len(req[1].rawLog) > 0

\* ------------------------------------------------------------------------
\* C25
\* ------------------------------------------------------------------------

\* C25: a Subvox hook call never rejects and its failures never hold the
\* hook back: once the process has failed to start or has closed, with any
\* exit code, the hook has returned; the stop hook returns the empty
\* result; the prompt hook returns the empty result after a failed start
\* and when the trimmed output is empty, and otherwise the trimmed output
\* the process wrote, as additional context.
C25_HooksAlwaysResolve ==
    /\ hook.settled # "rejected"
    /\ hook.pc # "threw"
    /\ hook.proc \in {"errored", "closed"} => hook.pc = "returned"
    /\ (hook.pc = "returned" /\ hook.kind = "stop") => hook.result = EmptyOutput
    /\ (hook.pc = "returned" /\ hook.kind = "prompt") =>
          IF hook.settledBy = "error" \/ Join(TrimChars(hook.stdout)) = ""
          THEN hook.result = EmptyOutput
          ELSE hook.result =
                  HookOutput(TRUE, "UserPromptSubmit", Join(TrimChars(hook.stdout)))

\* The prompt hook's process failed to start after it had written output,
\* and the hook returned the empty result.
C25_Witness ==
    /\ hook.kind = "prompt"
    /\ hook.settledBy = "error"
    /\ hook.proc = "errored"
    /\ hook.pc = "returned"
    /\ hook.stdout # <<>>
    /\ hook.result = EmptyOutput

\* ------------------------------------------------------------------------
\* C26, C27, C28
\* ------------------------------------------------------------------------

\* C26: the history of a session identifier without a log is answered with
\* 404 and an error body, and carries no message list.
C26_MissingSessionIs404 ==
    (sess.route = "get" /\ ~sess.exists)
    => /\ sess.status = 404
       /\ sess.hasError
       /\ ~sess.hasMessages
       /\ sess.messages = <<>>

\* The history of a session without a log was asked for and answered.
C26_Witness == sess.route = "get" /\ ~sess.exists /\ sess.status = 404

\* The tool_result blocks and the texts of the log of the request.
LogResultBlocks ==
    UNION {{sess.file[i].blocks[j] :
               j \in {k \in 1..Len(sess.file[i].blocks) :
                         sess.file[i].blocks[k].type = "tool_result"}} :
           i \in 1..Len(sess.file)}
LogTexts ==
    {sess.file[i].text : i \in 1..Len(sess.file)}
    \cup UNION {{sess.file[i].blocks[j].text :
                    j \in {k \in 1..Len(sess.file[i].blocks) :
                              sess.file[i].blocks[k].type \in {"text", "string"}}} :
                i \in 1..Len(sess.file)}

\* C27: in a reconstructed history every part is a text or a tool call; a
\* tool call carries a result exactly when the log holds a tool_result with
\* its identifier, and then the content and the error flag of a tool_result
\* with that identifier; no text part shows the content of a tool_result.
C27_ResultsById ==
    (sess.route = "get" /\ sess.hasMessages)
    => \A i \in 1..Len(sess.messages) :
          \A j \in 1..Len(sess.messages[i].content) :
             LET p == sess.messages[i].content[j]
                 same == {b \in LogResultBlocks : b.id = p.toolCallId}
             IN /\ p.type \in {"text", "tool-call"}
                /\ p.type = "text" => (p.text \in LogTexts /\ ~p.hasResult)
                /\ p.type = "tool-call"
                   => /\ p.hasResult <=> same # {}
                      /\ p.hasResult
                         => \E b \in same : b.content = p.result /\ b.is_error = p.isError

\* A history was reconstructed in which a tool call carries its result
\* while the log also holds the tool_result of another identifier.
C27_Witness ==
    /\ sess.route = "get"
    /\ sess.hasMessages
    /\ \E i \in 1..Len(sess.messages) :
          \E j \in 1..Len(sess.messages[i].content) :
             LET p == sess.messages[i].content[j]
             IN /\ p.type = "tool-call"
                /\ p.hasResult
                /\ p.isError
                /\ \E b \in LogResultBlocks : b.id # p.toolCallId

\* A record the history shows: a user or assistant record with a role and
\* a non-empty text or a tool-use block.
Displayable(line) ==
    /\ line.kind = "record"
    /\ line.type \in {"user", "assistant"}
    /\ line.role # None
    /\ \/ line.contentKind = "string" /\ line.text # ""
       \/ /\ line.contentKind = "array"
          /\ \E k \in 1..Len(line.blocks) :
                \/ line.blocks[k].type \in {"text", "string"} /\ line.blocks[k].text # ""
                \/ line.blocks[k].type = "tool_use"

\* C28: the history of an existing log is reconstructed whatever its lines
\* are, and lists one message for each displayable record, in log order.
C28_OneMessagePerRecord ==
    (sess.route = "get" /\ sess.exists)
    => LET shown == SelectSeq(sess.file, Displayable)
       IN /\ sess.status = 200
          /\ sess.hasMessages
          /\ Len(sess.messages) = Len(shown)
          /\ \A k \in 1..Len(shown) :
                /\ sess.messages[k].role = shown[k].role
                /\ sess.messages[k].timestamp = shown[k].timestamp

\* ------------------------------------------------------------------------
\* C29, C30
\* ------------------------------------------------------------------------

\* C29: in the listing every entry's updated_at, '' for a missing one, is
\* greater than or equal to that of the entry after it.
C29_SortedByUpdatedDesc ==
    sess.route = "list"
    => \A i \in 1..(Len(sess.list) - 1) :
          LocaleCompare(TimeOf(sess.list[i]), TimeOf(sess.list[i + 1])) >= 0

\* Three sessions were listed, the one without updated_at last, and the
\* directory gave them in another order.
C29_Witness ==
    /\ sess.route = "list"
    /\ Len(sess.list) = 3
    /\ ~sess.list[3].hasUpdated
    /\ LocaleCompare(TimeOf(sess.list[1]), TimeOf(sess.list[2])) > 0
    /\ sess.dir[1].id = sess.list[3].id

\* C30: the listing holds the first `limit` entries of the sorted list for
\* the limit the caller gave, so at most that many, and at most 20 when the
\* caller gave none.
C30_AtMostLimit ==
    sess.route = "list"
    => LET files == SelectSeq(sess.dir, EndsWithJsonl)
           sessions == EntriesOf(files, 1)
           sorted == SortSessions(sessions, Len(sessions))
       IN IF sess.limit # None /\ ~ParseInt(sess.limit).nan
          THEN /\ Len(sess.list) <= ParseInt(sess.limit).n
               /\ sess.list = SubSeq(sorted, 1, MinOf({ParseInt(sess.limit).n, Len(sorted)}))
          ELSE Len(sess.list) <= DefaultLimit

\* The last turn boundary among the events is a turn-end: the turn's
\* terminal marker has been processed and no turn-start came after it.
Sealed(events) ==
    \E i \in 1..Len(events) :
       /\ events[i].type = "turn-end"
       /\ \A j \in (i + 1)..Len(events) : events[j].type # "turn-start"

LateTypes == {"text-delta", "thinking-delta", "tool-call", "tool-result"}

\* C22: a text-delta, thinking-delta, tool-call or tool-result event that a
\* reader is given after a turn-end and before the next turn-start leaves
\* every message of the reader's store as it was.
C22_LateEventsChangeNothing ==
    [][\A k \in Readers :
          (/\ Sealed(rd[k].recv)
           /\ Len(rd'[k].recv) = Len(rd[k].recv) + 1
           /\ rd'[k].recv[Len(rd'[k].recv)].type \in LateTypes)
          => rd'[k].messages = rd[k].messages]_vars

\* A turn was sealed with the text "a" and a text-delta came after the
\* turn-end: the assistant message still holds "a" only.
C22_Witness ==
    /\ rd[1].recv = <<TurnStart, TextDelta("a"), TurnEnd, TextDelta("a")>>
    /\ rd[1].messages # <<>>
    /\ rd[1].messages[Len(rd[1].messages)].content = <<TextPart("a")>>

\* C23: whenever the translator emits an event, every reader whose stream is
\* open is given that event, after the events it already had of the turn
\* (a turn-start begins the sequence); so a reader whose stream is open holds
\* the turn's events so far, in the order of emission, and two open readers
\* hold the same sequence.
C23_BroadcastInOrder ==
    /\ [][srv'.hist # srv.hist
            => LET ev == srv'.hist[srv'.turn][Len(srv'.hist[srv'.turn])]
               IN \A k \in Readers :
                     rd[k].esState = "open"
                     => /\ rd'[k].esState = "open"
                        /\ rd'[k].recv = IF ev.type = "turn-start" THEN <<ev>>
                                         ELSE Append(rd[k].recv, ev)]_vars
    /\ [](\A k \in Readers :
             (rd[k].esState = "open" /\ rd[k].recv # <<>>) => rd[k].recv = TurnEvents)

\* Both readers were connected from before the turn's start to its end,
\* neither lost its connection, and both hold the turn's four events.
C23_Witness ==
    /\ \A k \in Readers :
          /\ rd[k].esState = "open"
          /\ rd[k].drops = 0
          /\ rd[k].recv = TurnEvents
    /\ Len(TurnEvents) = MaxEvents + 2
    /\ TurnEvents[1] = TurnStart
    /\ TurnEvents[2].type = "text-delta"
    /\ TurnEvents[3].type = "tool-call"
    /\ TurnEvents[Len(TurnEvents)] = TurnEnd

\* C24: a turn that is sealed while an interrupt is noted for it is sealed
\* with status interrupted, a turn sealed without one with status complete;
\* an interrupt noted for the turn in flight stays noted until the turn is
\* sealed, whatever the runtime still emits; and a sealed turn keeps its
\* status.
C24_InterruptedNotComplete ==
    /\ [][(srv.inFlight /\ ~srv'.inFlight)
            => srv'.status[srv.turn] =
                  IF srv.interrupt THEN "interrupted" ELSE "complete"]_vars
    /\ [][(srv.interrupt /\ srv'.inFlight) => srv'.interrupt]_vars
    /\ [][\A t \in 1..Len(srv.status) :
             srv.status[t] # "pending" => srv'.status[t] = srv.status[t]]_vars
    /\ [](srv.interrupt => srv.inFlight)

\* The interrupt was requested after the turn's first event, the runtime
\* emitted another event after the request, and the turn is sealed as
\* interrupted.
C24_Witness ==
    /\ srv.turn = 1
    /\ ~srv.inFlight
    /\ srv.status = <<"interrupted">>
    /\ srv.interruptAt >= 2
    /\ Len(srv.hist[1]) > srv.interruptAt + 1
    /\ srv.hist[1][srv.interruptAt + 1].type \in {"text-delta", "tool-call", "tool-result"}

\* The character budget of a title and of the identifier that stands in for it.
TitleBudget == 50
IdBudget == 8

\* The leading text of a message: the content when it is a string, the text
\* of the first text part when it is a list of parts, "" when it has none.
LeadingText(record) ==
    IF record.contentKind = "string" THEN record.text
    ELSE LET texts == SelectSeq(record.blocks, LAMBDA b : b.type \in {"string", "text"})
         IN IF texts = <<>> THEN "" ELSE texts[1].text

\* Whether text is the first n characters of whole, or whole when shorter.
IsPrefixUpTo(text, whole, n) ==
    /\ Len(text) = MinOf({Len(whole), n})
    /\ \A i \in 1..Len(text) : SubSeq(text, i, i) = SubSeq(whole, i, i)

\* C31: the title of every listed session is at most 50 characters long; it
\* is the first 50 characters of the leading text of the log's first user
\* record, and the first 8 characters of the session identifier when that
\* record has no text or the log has no user record.
C31_TitleFromFirstUserMessage ==
    sess.route = "list"
    => \A i \in 1..Len(sess.list) :
          /\ Len(sess.list[i].title) <= TitleBudget
          /\ \E j \in 1..Len(sess.dir) :
                /\ EndsWithJsonl(sess.dir[j])
                /\ Basename(sess.dir[j]) = sess.list[i].id
                /\ LET lines == NonBlank(sess.dir[j].lines)
                       users == SelectSeq(lines, LAMBDA l : l.kind = "record" /\ l.type = "user")
                       text == IF users = <<>> THEN "" ELSE LeadingText(users[1])
                   IN IF text # ""
                      THEN IsPrefixUpTo(sess.list[i].title, text, TitleBudget)
                      ELSE IsPrefixUpTo(sess.list[i].title, sess.list[i].id, IdBudget)

\* Three sessions were listed: one titled with the first 50 of the 55
\* characters of a text part that follows a tool result, one with the first
\* 8 characters of its 10-character identifier because its first user record
\* has no text, and one with its short text whole.
C31_Witness ==
    /\ sess.route = "list"
    /\ Len(sess.list) = 3
    /\ \E i \in 1..3 : /\ Len(sess.list[i].title) = TitleBudget
                       /\ sess.list[i].title = SubSeq(LongText, 1, TitleBudget)
                       /\ \E j \in 1..Len(sess.dir) :
                             /\ sess.dir[j].id = sess.list[i].id
                             /\ sess.dir[j].lines[1].contentKind = "array"
    /\ \E i \in 1..3 : /\ sess.list[i].id = "0123456789"
                       /\ sess.list[i].title = "01234567"
    /\ \E i \in 1..3 : sess.list[i].title = "hi"

\* C32: while the reader shows the conversation it went to, to which nothing
\* has been submitted, its messages are those loaded for that conversation,
\* its running flag is false and no assistant message is designated.
C32_NothingCarriesOver ==
    rd[1].sessionId = OtherSession
    => /\ rd[1].messages = OtherMessages
       /\ ~rd[1].isRunning
       /\ rd[1].curId = 0

\* The positions of the closing of the stream among the chunks of a request.
Closes(r) == {i \in 1..Len(req[r].out) : req[r].out[i] = CloseChunk}

\* C33: the stream of a request is closed once at most and the response is
\* ended once at most; when the runtime's messages have ended or the runtime
\* has thrown (turn complete or errored) the stream holds its closing as
\* last chunk; res.end() is called when the pipe has read the closing or a
\* write has thrown, not before; and once the runtime's messages have ended
\* or the runtime has thrown the response is eventually ended.
C33_ClosedAndEndedOnce ==
    /\ [](\A r \in Reqs :
             /\ Cardinality(Closes(r)) <= 1
             /\ res[r].ends <= 1
             /\ res[r].ended <=> res[r].ends = 1
             /\ req[r].pc = "closed" <=> Closes(r) = {Len(req[r].out)}
             /\ req[r].status \in {"complete", "errored"} => req[r].pc = "closed"
             /\ res[r].ended => (res[r].failed \/ res[r].written \in Closes(r)))
    /\ [][\A r \in Reqs : res[r].ends = 1 => res'[r].ends = 1]_vars
    /\ (req[1].pc = "closed") ~> (res[1].ends = 1)

\* The runtime threw after its first message; the stream was closed after
\* the error text, the pipe passed every chunk on and ended the response.
C33_Witness ==
    /\ req[1].status = "errored"
    /\ Len(req[1].rawLog) > 0
    /\ res[1].ends = 1
    /\ ~res[1].failed
    /\ res[1].written = Len(req[1].out)
    /\ req[1].out[Len(req[1].out) - 1] = TextChunk(ErrorText)

\* C34: a reader whose connection never dropped, whose stream is open under
\* the identifier it holds, and for which the server has no turn in flight,
\* queued or being submitted, has its running flag false: the turn-end of
\* every turn it saw start has reached it.
C34_TurnEndNotMissed ==
    (/\ rd[1].esState = "open"
     /\ rd[1].esSid = rd[1].sessionId
     /\ rd[1].drops = 0
     /\ rd[1].posting = 0
     /\ srv.queued = 0
     /\ ~srv.inFlight)
    => ~rd[1].isRunning

\* The positions of the user messages the reader submitted (those loaded
\* with the conversation have negative identifiers), in order.
Submitted(messages) ==
    SelectSeq([i \in 1..Len(messages) |-> i],
              LAMBDA i : messages[i].role = "user" /\ messages[i].id > 0)

\* C35: the assistant message of turn t stands directly after the t-th user
\* message the reader submitted, the one that started the turn.
C35_AssistantFollowsItsUser ==
    \A i \in 1..Len(rd[1].messages) :
       (rd[1].messages[i].role = "assistant" /\ rd[1].messages[i].turn > 0)
       => /\ rd[1].messages[i].turn <= Len(Submitted(rd[1].messages))
          /\ Submitted(rd[1].messages)[rd[1].messages[i].turn] = i - 1

\* The reader has processed a turn-start and not yet the turn-end after it.
InTurn(k) ==
    /\ rd[k].recv # <<>>
    /\ rd[k].recv[Len(rd[k].recv)].type # "turn-end"

\* C36: between a turn-start and its turn-end the reader's running flag is
\* true and an assistant message is designated; after the turn-end the flag
\* is false and none is designated.
C36_RunningWhileStreaming ==
    \A k \in Readers :
       rd[k].esState = "open"
       => /\ InTurn(k) => (rd[k].isRunning /\ rd[k].curId # 0)
          /\ (rd[k].recv # <<>> /\ ~InTurn(k)) => (~rd[k].isRunning /\ rd[k].curId = 0)

\* A submission has content when one of its add-message commands holds a
\* text part that is not empty once trimmed, or an image that is a data URL.
HasContent(commands) ==
    \E i \in 1..Len(commands) :
       /\ commands[i].type = "add-message"
       /\ commands[i].hasMessage
       /\ \E j \in 1..Len(commands[i].parts) :
             LET part == commands[i].parts[j]
             IN \/ part.type = "text" /\ Trim(part.text) # ""
                \/ part.type = "image" /\ StartsWithData(part.image)

\* C37: a request whose submission has no content is answered with the
\* error object: it gets no response stream and no response state, nothing
\* is stored, and no query is ever started for it, while a submission with
\* content is accepted; and onNew called without text and without image
\* adds no message, posts nothing and leaves the reader's conversation state
\* and the server as they were.
C37_EmptySubmissionDoesNothing ==
    /\ [][\A c \in CommandLists, s \in {None, "s1"}, m \in PriorMessages :
             Post(1, c, s, m)
             => IF HasContent(c)
                THEN req'[1].pc = "accepted"
                ELSE /\ req'[1].pc = "rejected"
                     /\ req'[1].out = <<>>
                     /\ req'[1].rsMessages = <<>>
                     /\ redis' = redis]_vars
    /\ [](req[1].pc = "rejected"
            => /\ req[1].out = <<>>
               /\ req[1].rawLog = <<>>
               /\ req[1].status = "none"
               /\ ~ENABLED StartQuery(1, "data"))
    /\ [][req[1].pc = "rejected" => (req' = req /\ redis' = redis)]_vars
    /\ [][\A text \in ComposerTexts :
             (Trim(text) = "" /\ OnNew(1, text, <<>>))
             => /\ srv' = srv
                /\ rd'[1].messages = rd[1].messages
                /\ rd'[1].posting = rd[1].posting
                /\ rd'[1].idCounter = rd[1].idCounter
                /\ rd'[1].isRunning = rd[1].isRunning
                /\ rd'[1].sessionId = rd[1].sessionId
                /\ rd'[1].curId = rd[1].curId]_vars

\* The backend rejected a request whose only text is blank and whose image
\* is no data URL, and the composer was sent twice without content: the
\* reader holds no message and the server got no submission.
C37_Witness ==
    /\ req[1].pc = "rejected"
    /\ nPosted = 1
    /\ rd[1].esState = "open"
    /\ rd[1].calls = MaxSubmits
    /\ rd[1].messages = <<>>
    /\ rd[1].posting = 0
    /\ srv.submitted = 0

\* C38: the meter shows the placeholder for no value and otherwise exactly
\* one colour: red from 155,000 tokens on, yellow from 135,000 up to
\* 154,999, green below 135,000.
C38_OneZonePerCount ==
    LET tokens == rd[1].inputTokens
        m == ContextMeter(tokens)
    IN IF tokens = NoCount THEN m.placeholder
       ELSE /\ ~m.placeholder
            /\ m.color \in {"red", "yellow", "green"}
            /\ m.color = "red" <=> tokens >= 155000
            /\ m.color = "yellow" <=> (tokens >= 135000 /\ tokens < 155000)
            /\ m.color = "green" <=> tokens < 135000

\* The store holds exactly 155,000 tokens and the meter is red.
C38_Witness ==
    /\ rd[1].esState = "open"
    /\ rd[1].inputTokens = 155000
    /\ ContextMeter(rd[1].inputTokens) = Meter(FALSE, "red")

====
